---- MODULE Spec2Model ----
(***************************************************************************)
(* Calendar sequence resolver of Shabat_Shalom_Posts: the sequence         *)
(* extender and finder (calendar_utils.py / make_shabbat_posts.py), the    *)
(* day cache (functools.lru_cache around JewCal) and the parsha resolver   *)
(* with its per-year cache (hebcal_api.py).                                *)
(*                                                                         *)
(* Dates are day numbers: day 0 is Monday 2025-12-22, so that Python's     *)
(* date.weekday() (Monday = 0 .. Sunday = 6) is d % 7 and the year changes *)
(* inside the window (2026-01-01 is day 10).                               *)
(***************************************************************************)
EXTENDS Integers, Sequences, FiniteSets, TLC

VARIABLES
    cal,           \* the Oracle: what JewCal(gregorian_date=d, diaspora=False) reports for day d
    call,          \* the sequence operation that ran last, with its inputs
    ret,           \* what that operation returned
    jewcal_cache,  \* _get_jewcal_cached's LRU entries, least recently used first
    oracle_calls,  \* per key: JewCal constructions since the cache was last cleared
    first_ret,     \* per key: the result of its first lookup since the last clear
    lookup,        \* the day-cache lookup that ran last, and the caller's position
    source,        \* the JSON object the Torah-portion source answers with when it answers
    hebcal_cache,  \* hebcal_api._hebcal_cache: year -> response data
    fetches,       \* per year: requests sent to the source since the last cache clear
    parsha,        \* the get_parsha_from_hebcal call that ran last, and its outcome
    race,          \* two threads inside hebcal_api.get_parsha_from_hebcal, and what the source does
    zmanim,        \* the Oracle with a location: per day, jewcal.zmanim.to_dict() or no zmanim
    times,         \* the jewcal_times_for_sequence call that ran last, and its result
    poster,        \* the generate_poster call that ran last, and what became of it
    sat_call,      \* the _get_saturday_for_date call that ran last: its argument and result
    upcoming,      \* the loop that enumerates sequences: its position and what it collected
    mapping,       \* the map_city_payload call that ran last: payload before and after
    helper_call,   \* the pure helper that ran last: which one, its argument and its result
    candles        \* one date and place: the located-day cache and the candle times got so far

seqVars == <<call, ret>>
cacheVars == <<jewcal_cache, oracle_calls, first_ret, lookup>>
hebcalVars == <<source, hebcal_cache, fetches, parsha>>
\* The state of the operations that run on their own.
timesVars == <<zmanim, times>>
posterVars == <<poster>>
helperVars == <<sat_call, upcoming, mapping, helper_call, candles>>
otherVars == <<race, zmanim, times, poster, helperVars>>
vars == <<cal, call, ret, jewcal_cache, oracle_calls, first_ret, lookup,
          source, hebcal_cache, fetches, parsha, race, zmanim, times, poster,
          sat_call, upcoming, mapping, helper_call, candles>>

(***************************************************************************)
(* Bounds of the model.                                                    *)
(***************************************************************************)
\* Eventful days of a calendar lie inside one block of at most MaxBlock days.
MaxBlock == 3
\* The day-cache callers use ExtraKeys distinct keys more than the cache holds.
ExtraKeys == 2
\* No key's JewCal is constructed more often than this in one cache lifetime.
MaxOracleCalls == 2
\* The source's answer lists at most MaxItems items.
MaxItems == 2
\* At most MaxFetches requests per year are followed between two cache clears.
MaxFetches == 2
\* _get_saturday_for_date is applied to the dates of MaxWeeks whole weeks.
MaxWeeks == 20
\* The loop that enumerates sequences is followed for at most MaxEvents of them.
MaxEvents == 3
\* The cache is used at most MaxCacheUses times before find_next_sequence is
\* compared: runs of lookups, calls, clears.
MaxCacheUses == 3

(***************************************************************************)
(* Program constants.                                                      *)
(***************************************************************************)
\* for i in range(14)
SearchDays == 14
\* datetime.now().hour >= 12
NoonHour == 12
\* (4 - d.weekday()) % 7 : Friday is weekday 4
FridayWeekday == 4
\* @lru_cache(maxsize=128)
maxsize == 128

\* The start dates offered to the operations cover every weekday, with room
\* for a whole block of eventful days before the first of them.
FirstStart == MaxBlock
StartDays == FirstStart .. (FirstStart + 6)
\* The window reaches past the search horizon of the last start date.
LastDay == FirstStart + 6 + SearchDays + 1
Days == 0 .. LastDay

\* Python's None
None == "None"

(***************************************************************************)
(* The Oracle's answers (jewcal's JewCal object): has_events(), and        *)
(* events.action / events.yomtov / events.shabbos.                         *)
(***************************************************************************)
JewCalDay(h, a, y, s) == [has_events |-> h, action |-> a, yomtov |-> y, shabbos |-> s]

NoEventDay == JewCalDay(FALSE, None, None, None)

\* The classifications a day of the calendar may have.
DayKinds ==
    << NoEventDay,
       JewCalDay(TRUE, "Candles", None, "Erev Shabbos"),
       JewCalDay(TRUE, "Havdalah", None, "Shabbos"),
       JewCalDay(TRUE, "Candles", "Pesach 1", None),
       JewCalDay(TRUE, None, "Chol HaMoed 1 (Pesach 3)", None) >>

\* A calendar whose days offset+1 .. offset+Len(kinds) have the given kinds.
BlockCalendar(offset, kinds) ==
    [d \in Days |->
        IF d - offset \in DOMAIN kinds THEN DayKinds[kinds[d - offset]] ELSE NoEventDay]

Calendars ==
    { BlockCalendar(o, ks) : o \in -1 .. (LastDay - 1),
                             ks \in [1 .. MaxBlock -> DOMAIN DayKinds] }

\* JewCal(gregorian_date=d, diaspora=False); days outside the window carry no event.
JewCal(d) == IF d \in DOMAIN cal THEN cal[d] ELSE NoEventDay

\* has_events() and events.action in ["Candles", "Havdalah"]
HasQualifyingAction(j) == j.has_events /\ j.action \in {"Candles", "Havdalah"}

\* date.weekday()
Weekday(d) == d % 7

(***************************************************************************)
(* find_event_sequence                                                     *)
(***************************************************************************)
\* Mutation: the backward walk does not stop at a day that ends with Havdalah.
RECURSIVE BackwardWalkThroughHavdalah(_)
BackwardWalkThroughHavdalah(current_date) ==
    LET prev_day == current_date - 1
    IN  IF HasQualifyingAction(JewCal(prev_day))
        THEN BackwardWalkThroughHavdalah(prev_day)
        ELSE current_date

\* Mutation: the backward walk takes one step at most.
BackwardWalkOneStep(current_date) ==
    LET prev_jewcal == JewCal(current_date - 1)
    IN  IF HasQualifyingAction(prev_jewcal) /\ prev_jewcal.action # "Havdalah"
        THEN current_date - 1
        ELSE current_date

\* The first loop: the start of the sequence.
RECURSIVE BackwardWalk(_)
BackwardWalk(current_date) ==
    LET prev_day == current_date - 1
        prev_jewcal == JewCal(prev_day)
    IN  IF HasQualifyingAction(prev_jewcal)
        THEN IF prev_jewcal.action = "Havdalah"
             THEN current_date
             ELSE BackwardWalk(prev_day)
        ELSE current_date

\* Mutation: the forward walk continues into any next day that has events,
\* whatever its action.
RECURSIVE ForwardWalkAnyEvent(_, _, _, _)
ForwardWalkAnyEvent(current_date, sequence_end, main_event_type, main_event_name) ==
    LET jewcal == JewCal(current_date)
        ty == IF jewcal.yomtov # None THEN "yomtov"
              ELSE IF jewcal.shabbos # None THEN "shabbos" ELSE main_event_type
        nm == IF jewcal.yomtov # None THEN jewcal.yomtov
              ELSE IF jewcal.shabbos # None THEN jewcal.shabbos ELSE main_event_name
        next_day == current_date + 1
    IN  IF jewcal.has_events
        THEN IF JewCal(next_day).has_events
             THEN IF jewcal.action = "Havdalah"
                  THEN [end |-> current_date, type |-> ty, name |-> nm]
                  ELSE ForwardWalkAnyEvent(next_day, current_date, ty, nm)
             ELSE [end |-> current_date, type |-> ty, name |-> nm]
        ELSE [end |-> sequence_end, type |-> main_event_type, name |-> main_event_name]

\* Mutation: the forward walk continues only into a next day with Candles.
RECURSIVE ForwardWalkCandlesOnly(_, _, _, _)
ForwardWalkCandlesOnly(current_date, sequence_end, main_event_type, main_event_name) ==
    LET jewcal == JewCal(current_date)
        ty == IF jewcal.yomtov # None THEN "yomtov"
              ELSE IF jewcal.shabbos # None THEN "shabbos" ELSE main_event_type
        nm == IF jewcal.yomtov # None THEN jewcal.yomtov
              ELSE IF jewcal.shabbos # None THEN jewcal.shabbos ELSE main_event_name
        next_day == current_date + 1
    IN  IF jewcal.has_events
        THEN IF JewCal(next_day).has_events /\ JewCal(next_day).action = "Candles"
             THEN IF jewcal.action = "Havdalah"
                  THEN [end |-> current_date, type |-> ty, name |-> nm]
                  ELSE ForwardWalkCandlesOnly(next_day, current_date, ty, nm)
             ELSE [end |-> current_date, type |-> ty, name |-> nm]
        ELSE [end |-> sequence_end, type |-> main_event_type, name |-> main_event_name]

\* Mutation: the event recorded first is kept; later days do not replace it.
RECURSIVE ForwardWalkFirstEvent(_, _, _, _)
ForwardWalkFirstEvent(current_date, sequence_end, main_event_type, main_event_name) ==
    LET jewcal == JewCal(current_date)
        ty == IF main_event_type # None THEN main_event_type
              ELSE IF jewcal.yomtov # None THEN "yomtov"
              ELSE IF jewcal.shabbos # None THEN "shabbos" ELSE main_event_type
        nm == IF main_event_type # None THEN main_event_name
              ELSE IF jewcal.yomtov # None THEN jewcal.yomtov
              ELSE IF jewcal.shabbos # None THEN jewcal.shabbos ELSE main_event_name
        next_day == current_date + 1
    IN  IF jewcal.has_events
        THEN IF HasQualifyingAction(JewCal(next_day))
             THEN IF jewcal.action = "Havdalah"
                  THEN [end |-> current_date, type |-> ty, name |-> nm]
                  ELSE ForwardWalkFirstEvent(next_day, current_date, ty, nm)
             ELSE [end |-> current_date, type |-> ty, name |-> nm]
        ELSE [end |-> sequence_end, type |-> main_event_type, name |-> main_event_name]

\* The second loop: the end of the sequence and the event recorded on the way.
RECURSIVE ForwardWalk(_, _, _, _)
ForwardWalk(current_date, sequence_end, main_event_type, main_event_name) ==
    LET jewcal == JewCal(current_date)
        ty == IF jewcal.yomtov # None THEN "yomtov"
              ELSE IF jewcal.shabbos # None THEN "shabbos" ELSE main_event_type
        nm == IF jewcal.yomtov # None THEN jewcal.yomtov
              ELSE IF jewcal.shabbos # None THEN jewcal.shabbos ELSE main_event_name
        next_day == current_date + 1
    IN  IF jewcal.has_events
        THEN IF HasQualifyingAction(JewCal(next_day))
             THEN IF jewcal.action = "Havdalah"
                  THEN [end |-> current_date, type |-> ty, name |-> nm]
                  ELSE ForwardWalk(next_day, current_date, ty, nm)
             ELSE [end |-> current_date, type |-> ty, name |-> nm]
        ELSE [end |-> sequence_end, type |-> main_event_type, name |-> main_event_name]

\* find_event_sequence(start_date) -> (start_date, end_date, event_type, event_name)
find_event_sequence(start_date) ==
    LET sequence_start == BackwardWalk(start_date)
        fw == ForwardWalk(start_date, start_date, None, None)
    IN  [start_date |-> sequence_start, end_date |-> fw.end,
         event_type |-> fw.type, event_name |-> fw.name]

(***************************************************************************)
(* next_friday and find_next_sequence                                      *)
(***************************************************************************)
\* (4 - d.weekday()) % 7
DaysAheadToFriday(d) == (FridayWeekday + 7 - Weekday(d)) % 7

\* The wall clock is read only when days_ahead == 0 (short-circuit ~and~).
ReadsClock(d) == DaysAheadToFriday(d) = 0

\* Mutation: the previous Friday instead of the next one.
next_friday_backwards(d, hour) ==
    LET days_back == (Weekday(d) + 7 - FridayWeekday) % 7
    IN  IF days_back = 0 /\ hour >= NoonHour THEN d + 7 ELSE d - days_back

\* Mutation: noon itself still counts as the morning.
next_friday_after_noon(d, hour) ==
    LET days_ahead == DaysAheadToFriday(d)
    IN  IF days_ahead = 0 /\ hour > NoonHour THEN d + 7 ELSE d + days_ahead

next_friday(d, hour) ==
    LET days_ahead == DaysAheadToFriday(d)
    IN  IF days_ahead = 0 /\ hour >= NoonHour THEN d + 7 ELSE d + days_ahead

\* Mutation: the loop examines one date more, range(15).
RECURSIVE ScanOneDayMore(_, _)
ScanOneDayMore(start_base, i) ==
    IF i >= SearchDays + 1
    THEN {}
    ELSE LET check_date == start_base + i
         IN  IF HasQualifyingAction(JewCal(check_date))
             THEN {check_date}
             ELSE ScanOneDayMore(start_base, i + 1)

\* The for loop from index i on: {check_date} for the first check_date with a
\* qualifying action, {} when the loop runs out.
RECURSIVE ScanForTrigger(_, _)
ScanForTrigger(start_base, i) ==
    IF i >= SearchDays
    THEN {}
    ELSE LET check_date == start_base + i
         IN  IF HasQualifyingAction(JewCal(check_date))
             THEN {check_date}
             ELSE ScanForTrigger(start_base, i + 1)

\* The date find_next_sequence hands to find_event_sequence.
TriggerDate(start_base, hour) ==
    LET found == ScanForTrigger(start_base, 0)
    IN  IF found # {} THEN CHOOSE t \in found : TRUE ELSE next_friday(start_base, hour)

find_next_sequence(start_base, hour) == find_event_sequence(TriggerDate(start_base, hour))

(***************************************************************************)
(* The sequence operations as actions.                                     *)
(***************************************************************************)
NoCall == [op |-> "none", arg |-> 0, clock_read |-> FALSE, hour |-> NoonHour,
           trigger |-> 0, fallback |-> FALSE]
NoRet == [start_date |-> 0, end_date |-> 0, event_type |-> None, event_name |-> None]

\* datetime.now().hour: the ends of the day and the hours around noon.
Hours == {0, NoonHour - 1, NoonHour, NoonHour + 1, 23}

\* The state of the day cache right after import: nothing cached, nothing looked up.
NoLookup == [cursor |-> -1, key |-> -1, hit |-> FALSE, result |-> NoEventDay]

CacheIdle ==
    /\ jewcal_cache = <<>>
    /\ oracle_calls = [i \in {} |-> 0]
    /\ first_ret = [i \in {} |-> NoEventDay]
    /\ lookup = NoLookup

\* Optional[str]: None, or a string made of the Hebrew prefix and a name.
NoneStr == [some |-> FALSE, prefix |-> "", name |-> ""]
Str(prefix, name) == [some |-> TRUE, prefix |-> prefix, name |-> name]

\* A JSON object of the source: {} (no key at all) or {"items": [...]}.
EmptyObject == [has_items |-> FALSE, items |-> <<>>]

NoParshaCall == [variant |-> "none", target |-> 0, fetched |-> FALSE, outcome |-> "none",
                 cache_was_empty |-> TRUE, raised |-> FALSE, result |-> NoneStr]

HebcalIdle ==
    /\ source = EmptyObject
    /\ hebcal_cache = [y \in {} |-> EmptyObject]
    /\ fetches = [y \in {} |-> 0]
    /\ parsha = NoParshaCall

\* No thread is inside get_parsha_from_hebcal.
NoRace == [outcome |-> "none", threads |-> <<>>]

\* A time of day is known by the day and the zman it was computed for.
Zman(day, name) == [day |-> day, zman |-> name]
NoTime == [day |-> -1, zman |-> "None"]

\* jewcal.zmanim is None
NoZmanim == [present |-> FALSE, hadlokas_haneiros |-> NoTime,
             tzeis_hakochavim |-> NoTime, tzeis_minutes |-> NoTime]

NoTimes == [start_date |-> -1, end_date |-> -1, candle |-> NoTime, havdalah |-> NoTime,
            event_type |-> None, event_name |-> None, action |-> None,
            parsha_resolved |-> FALSE]

TimesIdle ==
    /\ zmanim = [d \in {} |-> NoZmanim]
    /\ times = NoTimes

\* event_info = None
NoEventInfo == [is_none |-> TRUE, event_name |-> None, event_type |-> None, action |-> None]

NoPoster == [called |-> FALSE, start_date |-> -1, cities |-> <<>>, raised |-> FALSE,
             seq_start |-> -1, seq_end |-> -1, parsha_name |-> NoneStr,
             event_info |-> NoEventInfo, rows |-> <<>>,
             find_next_sequence_calls |-> 0, times_calls |-> 0, parsha_calls |-> 0]

PosterIdle ==
    /\ poster = NoPoster

NoSaturday == [called |-> FALSE, target_date |-> 0, result |-> 0]

NoUpcoming == [started |-> FALSE, start_base |-> 0, current_date |-> 0, events |-> <<>>]

\* A payload without "cities" and without "customCities".
EmptyPayload == [cities_kind |-> "absent", cities |-> <<>>, customCities |-> FALSE]

NoMapping == [called |-> FALSE, before |-> EmptyPayload, after |-> EmptyPayload,
              heap |-> <<>>, service_called |-> FALSE, service_after |-> EmptyPayload,
              service_heap |-> <<>>]

NoHelperCall == [op |-> "none", arg |-> 0, result |-> 0]

NoCandles == [sunset |-> -1, location_cache |-> <<>>, candle |-> <<>>]

HelpersIdle ==
    /\ sat_call = NoSaturday
    /\ upcoming = NoUpcoming
    /\ mapping = NoMapping
    /\ helper_call = NoHelperCall
    /\ candles = NoCandles

OtherIdle ==
    /\ race = NoRace
    /\ TimesIdle
    /\ PosterIdle
    /\ HelpersIdle

InitSeq ==
    /\ cal \in Calendars
    /\ call = NoCall
    /\ ret = NoRet
    /\ CacheIdle
    /\ HebcalIdle
    /\ OtherIdle

FindEventSequence ==
    \E d \in StartDays :
        /\ call' = [op |-> "find_event_sequence", arg |-> d, clock_read |-> FALSE,
                    hour |-> NoonHour, trigger |-> d, fallback |-> FALSE]
        /\ ret' = find_event_sequence(d)
        /\ UNCHANGED <<cal, cacheVars, hebcalVars, otherVars>>

FindNextSequence ==
    \E start_base \in StartDays :
        LET found == ScanForTrigger(start_base, 0)
            uses_clock == found = {} /\ ReadsClock(start_base)
        IN  \* the clock is an input of the call only when next_friday reads it
            \E hour \in IF uses_clock THEN Hours ELSE {NoonHour} :
                /\ call' = [op |-> "find_next_sequence", arg |-> start_base,
                            clock_read |-> uses_clock, hour |-> hour,
                            trigger |-> TriggerDate(start_base, hour),
                            fallback |-> (found = {})]
                /\ ret' = find_next_sequence(start_base, hour)
                /\ UNCHANGED <<cal, cacheVars, hebcalVars, otherVars>>

NextSeq == FindEventSequence \/ FindNextSequence

SpecSeq == InitSeq /\ [][NextSeq]_vars

(***************************************************************************)
(* The day cache: _get_jewcal_cached under functools.lru_cache(maxsize=128) *)
(* and clear_jewcal_cache.                                                 *)
(***************************************************************************)
\* The keys the callers use, numbered: (gregorian_date, diaspora).
NumKeys == maxsize + ExtraKeys
KeyIndexes == 0 .. (NumKeys - 1)
CacheKey(i) == [gregorian_date |-> i \div 2, diaspora |-> (i % 2 = 1)]

\* JewCal(gregorian_date, diaspora): outside Israel the intermediate festival
\* day is a second festival day with candle lighting.
Oracle(key) ==
    LET j == JewCal(key.gregorian_date)
    IN  IF key.diaspora /\ j.has_events /\ j.action = None
        THEN JewCalDay(TRUE, "Candles", "Pesach 2", None)
        ELSE j

\* Mutation: an entry is found by its date alone, whatever its diaspora flag.
PositionsByDate(cache, key) ==
    {n \in DOMAIN cache : cache[n].key.gregorian_date = key.gregorian_date}

\* The positions of a key in the cache entries (at most one).
Positions(cache, key) == {n \in DOMAIN cache : cache[n].key = key}

Without(cache, n) == [m \in 1 .. (Len(cache) - 1) |-> IF m < n THEN cache[m] ELSE cache[m + 1]]

\* Mutation: a miss computes the result but stores nothing.
lru_cache_get_no_store(cache, key) ==
    LET at == Positions(cache, key)
    IN  IF at # {}
        THEN LET n == CHOOSE n \in at : TRUE
             IN  [hit |-> TRUE, result |-> cache[n].value,
                  cache |-> Append(Without(cache, n), cache[n])]
        ELSE [hit |-> FALSE, result |-> Oracle(key), cache |-> cache]

\* One call of the lru_cache wrapper: a hit returns the stored result and makes
\* the entry the most recently used; a miss calls the function, stores the
\* result and, when the cache is full, drops the least recently used entry.
lru_cache_get(cache, key) ==
    LET at == Positions(cache, key)
    IN  IF at # {}
        THEN LET n == CHOOSE n \in at : TRUE
             IN  [hit |-> TRUE, result |-> cache[n].value,
                  cache |-> Append(Without(cache, n), cache[n])]
        ELSE LET value == Oracle(key)
                 entry == [key |-> key, value |-> value]
             IN  [hit |-> FALSE, result |-> value,
                  cache |-> IF Len(cache) >= maxsize
                            THEN Append(Tail(cache), entry)
                            ELSE Append(cache, entry)]

\* The calendar of the day-cache runs: a festival eve, an intermediate day, the
\* eve of Shabbat and Shabbat on days 1 .. 4.
CacheCalendar == BlockCalendar(0, <<4, 5, 2, 3>>)

InitCache ==
    /\ cal = CacheCalendar
    /\ call = NoCall
    /\ ret = NoRet
    /\ CacheIdle
    /\ HebcalIdle
    /\ OtherIdle

\* The keys a caller looks up next: a key not used before, the key it used
\* last, or the first key it ever used.
NextKeyIndexes ==
    {i \in KeyIndexes : i = lookup.cursor + 1}
        \cup {i \in KeyIndexes : i = lookup.cursor}
        \cup {i \in KeyIndexes : i = 0 /\ lookup.cursor > 0}

Calls(i) == IF i \in DOMAIN oracle_calls THEN oracle_calls[i] ELSE 0

GetJewcalCached ==
    \E i \in NextKeyIndexes :
        LET got == lru_cache_get(jewcal_cache, CacheKey(i))
        IN  /\ got.hit \/ Calls(i) < MaxOracleCalls
            /\ jewcal_cache' = got.cache
            /\ oracle_calls' = IF got.hit THEN oracle_calls
                               ELSE [k \in DOMAIN oracle_calls \cup {i} |->
                                        IF k = i THEN Calls(i) + 1 ELSE oracle_calls[k]]
            /\ first_ret' = IF i \in DOMAIN first_ret THEN first_ret
                            ELSE [k \in DOMAIN first_ret \cup {i} |->
                                     IF k = i THEN got.result ELSE first_ret[k]]
            /\ lookup' = [cursor |-> IF i > lookup.cursor THEN i ELSE lookup.cursor,
                          key |-> i, hit |-> got.hit, result |-> got.result]
            /\ UNCHANGED <<cal, seqVars, hebcalVars, otherVars>>

\* clear_jewcal_cache(): a new cache lifetime begins.
ClearJewcalCache ==
    /\ lookup.cursor >= 0
    /\ jewcal_cache' = <<>>
    /\ oracle_calls' = [i \in {} |-> 0]
    /\ first_ret' = [i \in {} |-> NoEventDay]
    /\ lookup' = NoLookup
    /\ UNCHANGED <<cal, seqVars, hebcalVars, otherVars>>

NextCache == GetJewcalCached \/ ClearJewcalCache

SpecCache == InitCache /\ [][NextCache]_vars

(***************************************************************************)
(* Dates as text: date.isoformat(), date.fromisoformat(), date.year.       *)
(***************************************************************************)
\* Day 0 of the model.
Epoch == [y |-> 2025, m |-> 12, d |-> 22]

IsLeap(y) == (y % 4 = 0 /\ y % 100 # 0) \/ y % 400 = 0

DaysInMonth(y, m) ==
    IF m = 2 THEN (IF IsLeap(y) THEN 29 ELSE 28)
    ELSE IF m \in {4, 6, 9, 11} THEN 30 ELSE 31

NextDate(dt) ==
    IF dt.d < DaysInMonth(dt.y, dt.m) THEN [dt EXCEPT !.d = @ + 1]
    ELSE IF dt.m < 12 THEN [y |-> dt.y, m |-> dt.m + 1, d |-> 1]
    ELSE [y |-> dt.y + 1, m |-> 1, d |-> 1]

\* The calendar date of day n >= 0.
RECURSIVE DateOf(_)
DateOf(n) == IF n = 0 THEN Epoch ELSE NextDate(DateOf(n - 1))

RECURSIVE DaysBeforeMonth(_, _)
DaysBeforeMonth(y, m) ==
    IF m = 1 THEN 0 ELSE DaysBeforeMonth(y, m - 1) + DaysInMonth(y, m - 1)

\* Days from 1 January of the epoch's year to 1 January of year y >= Epoch.y.
RECURSIVE DaysBeforeYear(_)
DaysBeforeYear(y) ==
    IF y <= Epoch.y THEN 0
    ELSE DaysBeforeYear(y - 1) + (IF IsLeap(y - 1) THEN 366 ELSE 365)

\* The day number of a calendar date of the epoch's year or later.
DayNumber(dt) ==
    (DaysBeforeYear(dt.y) + DaysBeforeMonth(dt.y, dt.m) + dt.d)
        - (DaysBeforeMonth(Epoch.y, Epoch.m) + Epoch.d)

\* The value of a JSON "date" field: the text "YYYY-MM-DD" with the numbers it
\* shows, some other text, the empty string, or no such key.
YmdText(y, m, d) == [form |-> "ymd", y |-> y, m |-> m, d |-> d]
OtherText == [form |-> "other", y |-> 0, m |-> 0, d |-> 0]
EmptyText == [form |-> "empty", y |-> 0, m |-> 0, d |-> 0]
AbsentText == [form |-> "absent", y |-> 0, m |-> 0, d |-> 0]

\* The calendar dates of the days of the window.
Dates == [n \in Days |-> DateOf(n)]

\* date.isoformat()
isoformat(n) == YmdText(Dates[n].y, Dates[n].m, Dates[n].d)

\* date.fromisoformat(text): {day} for a valid date, {} for ValueError.
fromisoformat(text) ==
    IF /\ text.form = "ymd"
       /\ text.y >= Epoch.y
       /\ text.m \in 1 .. 12
       /\ text.d \in 1 .. DaysInMonth(text.y, text.m)
    THEN {DayNumber(text)}
    ELSE {}

\* date.year
YearOf(n) == Dates[n].y

(***************************************************************************)
(* translate_parsha                                                        *)
(***************************************************************************)
\* The prefix 'parashat' in Hebrew letters, and Hebrew names, are written he:...
HebrewPrefix == "he:Parashat"

\* parsha_title.replace("Parashat ", "").strip() on the titles of the model.
CleanTitle(title) ==
    CASE title = "Parashat Vayechi" -> "Vayechi"
      [] title = "Parashat Vayigash" -> "Vayigash"
      [] title = "Parashat Shemot" -> "Shemot"
      [] title = "Parashat Bo" -> "Bo"
      [] OTHER -> title

\* PARASHA_TRANSLATION: the entries the model uses, English spelling -> Hebrew
\* name. A Hebrew name is written he: and the first spelling that carries it.
PARASHA_TRANSLATION ==
    [k \in { "Vayigash", "Vayechi", "Shemot", "Bo", "Lech-Lecha", "Lech Lecha",
              "Ki Tisa", "Beha'alotcha", "Re'eh", "Ha'Azinu", "Haazinu", "Ha'azinu",
              "Matot-Masei", "Matot-Mas'ei", "Mas'ei", "Vezot Haberakhah",
              "V'Zot HaBerachah" } |->
        CASE k = "Vayigash" -> "he:Vayigash"
          [] k = "Vayechi" -> "he:Vayechi"
          [] k = "Shemot" -> "he:Shemot"
          [] k = "Bo" -> "he:Bo"
          [] k = "Lech-Lecha" -> "he:Lech-Lecha"
          [] k = "Lech Lecha" -> "he:Lech-Lecha"
          [] k = "Ki Tisa" -> "he:Ki Tisa"
          [] k = "Beha'alotcha" -> "he:Beha'alotcha"
          [] k = "Re'eh" -> "he:Re'eh"
          [] k = "Ha'Azinu" -> "he:Ha'Azinu"
          [] k = "Haazinu" -> "he:Ha'Azinu"
          [] k = "Ha'azinu" -> "he:Ha'Azinu"
          [] k = "Matot-Masei" -> "he:Matot-Masei"
          [] k = "Matot-Mas'ei" -> "he:Matot-Masei"
          [] k = "Mas'ei" -> "he:Masei"
          [] k = "Vezot Haberakhah" -> "he:Vezot Haberakhah"
          [] k = "V'Zot HaBerachah" -> "he:Vezot Haberakhah"]

\* english_name.replace(u2019, "'").replace(u2018, "'") on the names of the
\* model; the typographic apostrophe is written as a tilde.
normalize_apostrophes(name) ==
    CASE name = "Beha~alotcha" -> "Beha'alotcha"
      [] name = "beha~alotcha" -> "beha'alotcha"
      [] name = "Re~eh" -> "Re'eh"
      [] name = "re~eh" -> "re'eh"
      [] name = "Ha~Azinu" -> "Ha'Azinu"
      [] name = "ha~azinu" -> "ha'azinu"
      [] name = "Ha~azinu" -> "Ha'azinu"
      [] name = "Matot-Mas~ei" -> "Matot-Mas'ei"
      [] name = "matot-mas~ei" -> "matot-mas'ei"
      [] name = "Mas~ei" -> "Mas'ei"
      [] name = "mas~ei" -> "mas'ei"
      [] name = "V~Zot HaBerachah" -> "V'Zot HaBerachah"
      [] name = "v~zot haberachah" -> "v'zot haberachah"
      [] name = "Unknown~s" -> "Unknown's"
      [] name = "Mas~ei Extra" -> "Mas'ei Extra"
      [] name = "O~Brien-Smith" -> "O'Brien-Smith"
      [] OTHER -> name

\* clean_name.lower() on the names of the model.
Lower(name) ==
    CASE name = "Vayigash" -> "vayigash"
      [] name = "VAYIGASH" -> "vayigash"
      [] name = "V'ayigash" -> "v'ayigash"
      [] name = "Vayigash " -> "vayigash "
      [] name = "Vayechi" -> "vayechi"
      [] name = "VAYECHI" -> "vayechi"
      [] name = "V'ayechi" -> "v'ayechi"
      [] name = "Vayechi " -> "vayechi "
      [] name = "Shemot" -> "shemot"
      [] name = "SHEMOT" -> "shemot"
      [] name = "S'hemot" -> "s'hemot"
      [] name = "Shemot " -> "shemot "
      [] name = "Bo" -> "bo"
      [] name = "BO" -> "bo"
      [] name = "B'o" -> "b'o"
      [] name = "Bo " -> "bo "
      [] name = "Lech-Lecha" -> "lech-lecha"
      [] name = "LECH-LECHA" -> "lech-lecha"
      [] name = "Lech Lecha" -> "lech lecha"
      [] name = "LechLecha" -> "lechlecha"
      [] name = "L'ech-Lecha" -> "l'ech-lecha"
      [] name = "Lech-Lecha " -> "lech-lecha "
      [] name = "LECH LECHA" -> "lech lecha"
      [] name = "L'ech Lecha" -> "l'ech lecha"
      [] name = "Lech Lecha " -> "lech lecha "
      [] name = "Ki Tisa" -> "ki tisa"
      [] name = "KI TISA" -> "ki tisa"
      [] name = "Ki-Tisa" -> "ki-tisa"
      [] name = "KiTisa" -> "kitisa"
      [] name = "K'i Tisa" -> "k'i tisa"
      [] name = "Ki Tisa " -> "ki tisa "
      [] name = "Beha'alotcha" -> "beha'alotcha"
      [] name = "BEHA'ALOTCHA" -> "beha'alotcha"
      [] name = "Beha~alotcha" -> "beha~alotcha"
      [] name = "Behaalotcha" -> "behaalotcha"
      [] name = "B'eha'alotcha" -> "b'eha'alotcha"
      [] name = "Beha'alotcha " -> "beha'alotcha "
      [] name = "Re'eh" -> "re'eh"
      [] name = "RE'EH" -> "re'eh"
      [] name = "Re~eh" -> "re~eh"
      [] name = "Reeh" -> "reeh"
      [] name = "R'e'eh" -> "r'e'eh"
      [] name = "Re'eh " -> "re'eh "
      [] name = "Ha'Azinu" -> "ha'azinu"
      [] name = "HA'AZINU" -> "ha'azinu"
      [] name = "Ha~Azinu" -> "ha~azinu"
      [] name = "HaAzinu" -> "haazinu"
      [] name = "H'a'Azinu" -> "h'a'azinu"
      [] name = "Ha'Azinu " -> "ha'azinu "
      [] name = "Haazinu" -> "haazinu"
      [] name = "HAAZINU" -> "haazinu"
      [] name = "H'aazinu" -> "h'aazinu"
      [] name = "Haazinu " -> "haazinu "
      [] name = "Ha'azinu" -> "ha'azinu"
      [] name = "Ha~azinu" -> "ha~azinu"
      [] name = "H'a'azinu" -> "h'a'azinu"
      [] name = "Ha'azinu " -> "ha'azinu "
      [] name = "Matot-Masei" -> "matot-masei"
      [] name = "MATOT-MASEI" -> "matot-masei"
      [] name = "Matot Masei" -> "matot masei"
      [] name = "MatotMasei" -> "matotmasei"
      [] name = "M'atot-Masei" -> "m'atot-masei"
      [] name = "Matot-Masei " -> "matot-masei "
      [] name = "Matot-Mas'ei" -> "matot-mas'ei"
      [] name = "MATOT-MAS'EI" -> "matot-mas'ei"
      [] name = "Matot-Mas~ei" -> "matot-mas~ei"
      [] name = "Matot Mas'ei" -> "matot mas'ei"
      [] name = "MatotMas'ei" -> "matotmas'ei"
      [] name = "M'atot-Mas'ei" -> "m'atot-mas'ei"
      [] name = "Matot-Mas'ei " -> "matot-mas'ei "
      [] name = "Mas'ei" -> "mas'ei"
      [] name = "MAS'EI" -> "mas'ei"
      [] name = "Mas~ei" -> "mas~ei"
      [] name = "Masei" -> "masei"
      [] name = "M'as'ei" -> "m'as'ei"
      [] name = "Mas'ei " -> "mas'ei "
      [] name = "Vezot Haberakhah" -> "vezot haberakhah"
      [] name = "VEZOT HABERAKHAH" -> "vezot haberakhah"
      [] name = "Vezot-Haberakhah" -> "vezot-haberakhah"
      [] name = "VezotHaberakhah" -> "vezothaberakhah"
      [] name = "V'ezot Haberakhah" -> "v'ezot haberakhah"
      [] name = "Vezot Haberakhah " -> "vezot haberakhah "
      [] name = "V'Zot HaBerachah" -> "v'zot haberachah"
      [] name = "V'ZOT HABERACHAH" -> "v'zot haberachah"
      [] name = "V~Zot HaBerachah" -> "v~zot haberachah"
      [] name = "VZot HaBerachah" -> "vzot haberachah"
      [] name = "V'Zot-HaBerachah" -> "v'zot-haberachah"
      [] name = "V'ZotHaBerachah" -> "v'zothaberachah"
      [] name = "V''Zot HaBerachah" -> "v''zot haberachah"
      [] name = "V'Zot HaBerachah " -> "v'zot haberachah "
      [] name = "UnknownParsha" -> "unknownparsha"
      [] name = "Unknown~s" -> "unknown~s"
      [] name = "Asara B'Tevet" -> "asara b'tevet"
      [] name = "Mas~ei Extra" -> "mas~ei extra"
      [] name = "Lech_Lecha" -> "lech_lecha"
      [] name = "Rosh Chodesh" -> "rosh chodesh"
      [] name = "O~Brien-Smith" -> "o~brien-smith"
      [] name = "Unknown's" -> "unknown's"
      [] name = "Mas'ei Extra" -> "mas'ei extra"
      [] name = "O'Brien-Smith" -> "o'brien-smith"
      [] OTHER -> name

\* _normalize_parsha_key on the names of the model.
normalize_parsha_key(name) ==
    CASE name = "V'ayigash" -> "vayigash"
      [] name = "Vayigash " -> "vayigash"
      [] name = "V'ayechi" -> "vayechi"
      [] name = "Vayechi " -> "vayechi"
      [] name = "S'hemot" -> "shemot"
      [] name = "Shemot " -> "shemot"
      [] name = "B'o" -> "bo"
      [] name = "Bo " -> "bo"
      [] name = "Lech-Lecha" -> "lechlecha"
      [] name = "lech-lecha" -> "lechlecha"
      [] name = "LECH-LECHA" -> "lechlecha"
      [] name = "Lech Lecha" -> "lechlecha"
      [] name = "L'ech-Lecha" -> "lechlecha"
      [] name = "Lech-Lecha " -> "lechlecha"
      [] name = "lech lecha" -> "lechlecha"
      [] name = "LECH LECHA" -> "lechlecha"
      [] name = "L'ech Lecha" -> "lechlecha"
      [] name = "Lech Lecha " -> "lechlecha"
      [] name = "Ki Tisa" -> "kitisa"
      [] name = "ki tisa" -> "kitisa"
      [] name = "KI TISA" -> "kitisa"
      [] name = "Ki-Tisa" -> "kitisa"
      [] name = "K'i Tisa" -> "kitisa"
      [] name = "Ki Tisa " -> "kitisa"
      [] name = "Beha'alotcha" -> "behaalotcha"
      [] name = "beha'alotcha" -> "behaalotcha"
      [] name = "BEHA'ALOTCHA" -> "behaalotcha"
      [] name = "B'eha'alotcha" -> "behaalotcha"
      [] name = "Beha'alotcha " -> "behaalotcha"
      [] name = "Re'eh" -> "reeh"
      [] name = "re'eh" -> "reeh"
      [] name = "RE'EH" -> "reeh"
      [] name = "R'e'eh" -> "reeh"
      [] name = "Re'eh " -> "reeh"
      [] name = "Ha'Azinu" -> "haazinu"
      [] name = "ha'azinu" -> "haazinu"
      [] name = "HA'AZINU" -> "haazinu"
      [] name = "H'a'Azinu" -> "haazinu"
      [] name = "Ha'Azinu " -> "haazinu"
      [] name = "H'aazinu" -> "haazinu"
      [] name = "Haazinu " -> "haazinu"
      [] name = "Ha'azinu" -> "haazinu"
      [] name = "H'a'azinu" -> "haazinu"
      [] name = "Ha'azinu " -> "haazinu"
      [] name = "Matot-Masei" -> "matotmasei"
      [] name = "matot-masei" -> "matotmasei"
      [] name = "MATOT-MASEI" -> "matotmasei"
      [] name = "Matot Masei" -> "matotmasei"
      [] name = "M'atot-Masei" -> "matotmasei"
      [] name = "Matot-Masei " -> "matotmasei"
      [] name = "Matot-Mas'ei" -> "matotmasei"
      [] name = "matot-mas'ei" -> "matotmasei"
      [] name = "MATOT-MAS'EI" -> "matotmasei"
      [] name = "Matot-Mas~ei" -> "matotmas~ei"
      [] name = "Matot Mas'ei" -> "matotmasei"
      [] name = "MatotMas'ei" -> "matotmasei"
      [] name = "matot-mas~ei" -> "matotmas~ei"
      [] name = "M'atot-Mas'ei" -> "matotmasei"
      [] name = "Matot-Mas'ei " -> "matotmasei"
      [] name = "Mas'ei" -> "masei"
      [] name = "mas'ei" -> "masei"
      [] name = "MAS'EI" -> "masei"
      [] name = "M'as'ei" -> "masei"
      [] name = "Mas'ei " -> "masei"
      [] name = "Vezot Haberakhah" -> "vezothaberakhah"
      [] name = "vezot haberakhah" -> "vezothaberakhah"
      [] name = "VEZOT HABERAKHAH" -> "vezothaberakhah"
      [] name = "Vezot-Haberakhah" -> "vezothaberakhah"
      [] name = "V'ezot Haberakhah" -> "vezothaberakhah"
      [] name = "Vezot Haberakhah " -> "vezothaberakhah"
      [] name = "V'Zot HaBerachah" -> "vzothaberachah"
      [] name = "v'zot haberachah" -> "vzothaberachah"
      [] name = "V'ZOT HABERACHAH" -> "vzothaberachah"
      [] name = "V~Zot HaBerachah" -> "v~zothaberachah"
      [] name = "VZot HaBerachah" -> "vzothaberachah"
      [] name = "V'Zot-HaBerachah" -> "vzothaberachah"
      [] name = "V'ZotHaBerachah" -> "vzothaberachah"
      [] name = "v~zot haberachah" -> "v~zothaberachah"
      [] name = "V''Zot HaBerachah" -> "vzothaberachah"
      [] name = "V'Zot HaBerachah " -> "vzothaberachah"
      [] name = "Asara B'Tevet" -> "asarabtevet"
      [] name = "Mas~ei Extra" -> "mas~eiextra"
      [] name = "Rosh Chodesh" -> "roshchodesh"
      [] name = "O~Brien-Smith" -> "o~briensmith"
      [] name = "Unknown's" -> "unknowns"
      [] name = "Mas'ei Extra" -> "maseiextra"
      [] name = "O'Brien-Smith" -> "obriensmith"
      [] OTHER -> Lower(name)

\* {k.lower(): v for k, v in PARASHA_TRANSLATION.items()}
PARASHA_EXACT_LOOKUP ==
    [key \in {Lower(k) : k \in DOMAIN PARASHA_TRANSLATION} |->
        PARASHA_TRANSLATION[CHOOSE k \in DOMAIN PARASHA_TRANSLATION : Lower(k) = key]]

\* {_normalize_parsha_key(k): v for k, v in PARASHA_TRANSLATION.items()}; the
\* spellings that share a normalized key carry the same Hebrew name.
PARASHA_NORMALIZED_LOOKUP ==
    [key \in {normalize_parsha_key(k) : k \in DOMAIN PARASHA_TRANSLATION} |->
        PARASHA_TRANSLATION[CHOOSE k \in DOMAIN PARASHA_TRANSLATION :
                                normalize_parsha_key(k) = key]]

\* After the apostrophes are made plain: exact match, normalized match, fallback.
TranslateClean(clean_name) ==
    IF Lower(clean_name) \in DOMAIN PARASHA_EXACT_LOOKUP
    THEN Str(HebrewPrefix, PARASHA_EXACT_LOOKUP[Lower(clean_name)])
    ELSE IF normalize_parsha_key(clean_name) \in DOMAIN PARASHA_NORMALIZED_LOOKUP
    THEN Str(HebrewPrefix, PARASHA_NORMALIZED_LOOKUP[normalize_parsha_key(clean_name)])
    ELSE Str(HebrewPrefix, clean_name)

translate_parsha(english_name) == TranslateClean(normalize_apostrophes(english_name))

(***************************************************************************)
(* The Torah-portion source and hebcal_api.                                *)
(***************************************************************************)
Item(category, date, title) == [category |-> category, date |-> date, title |-> title]

\* The items an answer of the source may list. Day 5 is Saturday 2025-12-27 and
\* day 12 is Saturday 2026-01-03.
ItemKinds ==
    << Item("parashat", isoformat(12), "Parashat Vayechi"),
       Item("parashat", isoformat(5), "Parashat Vayigash"),
       Item("holiday", isoformat(12), "Asara B'Tevet"),
       Item("parashat", YmdText(2026, 13, 1), "Parashat Shemot"),
       Item("parashat", AbsentText, "Parashat Bo"),
       Item("parashat", isoformat(12), None) >>

ItemsObject(items) == [has_items |-> TRUE, items |-> items]

Payloads ==
    {EmptyObject} \cup
    UNION { { ItemsObject([k \in 1 .. n |-> ItemKinds[f[k]]]) :
                f \in [1 .. n -> DOMAIN ItemKinds] } : n \in 0 .. MaxItems }

\* What a request to the source does: it answers, requests.get raises, it times
\* out, or raise_for_status raises on an error status.
Outcomes == {"ok", "raises", "timeout", "http_error"}

\* data.get("items", [])
ItemsOf(data) == IF data.has_items THEN data.items ELSE <<>>

\* ~if not data~ / ~if parsha_title~
IsEmptyObject(data) == ~data.has_items
Truthy(title) == title # None /\ title # ""

\* _find_parsha_for_date: the title of the first parashat item with the date text.
RECURSIVE FindFrom(_, _, _)
FindFrom(items, i, target_date_str) ==
    IF i > Len(items) THEN None
    ELSE IF items[i].category = "parashat" /\ items[i].date = target_date_str
    THEN items[i].title
    ELSE FindFrom(items, i + 1, target_date_str)

find_parsha_for_date(data, saturday) == FindFrom(ItemsOf(data), 1, isoformat(saturday))

NoClosest == [raised |-> FALSE, closest_date |-> {}, closest_parsha |-> None]

\* Mutation: no ~except ValueError~: an unparsable date ends the search with the error.
RECURSIVE ClosestFromUncaught(_, _, _, _)
ClosestFromUncaught(items, i, saturday, acc) ==
    IF i > Len(items) THEN acc
    ELSE LET item == items[i]
             parsed == fromisoformat(item.date)
         IN  IF item.category # "parashat" THEN ClosestFromUncaught(items, i + 1, saturday, acc)
             ELSE IF item.date.form \in {"absent", "empty"}
             THEN ClosestFromUncaught(items, i + 1, saturday, acc)
             ELSE IF parsed = {} THEN [acc EXCEPT !.raised = TRUE]
             ELSE LET item_date == CHOOSE n \in parsed : TRUE
                  IN  IF /\ item_date <= saturday
                         /\ (acc.closest_date = {} \/ \A c \in acc.closest_date : item_date > c)
                      THEN ClosestFromUncaught(items, i + 1, saturday,
                               [raised |-> FALSE, closest_date |-> {item_date},
                                closest_parsha |-> item.title])
                      ELSE ClosestFromUncaught(items, i + 1, saturday, acc)

\* Mutation: the first dated entry on or before the Saturday is kept, a later
\* entry with a greater date does not replace it.
RECURSIVE ClosestFromKeepFirst(_, _, _, _)
ClosestFromKeepFirst(items, i, saturday, acc) ==
    IF i > Len(items) THEN acc
    ELSE LET item == items[i]
             parsed == fromisoformat(item.date)
         IN  IF item.category # "parashat" THEN ClosestFromKeepFirst(items, i + 1, saturday, acc)
             ELSE IF item.date.form \in {"absent", "empty"}
             THEN ClosestFromKeepFirst(items, i + 1, saturday, acc)
             ELSE IF parsed = {} THEN ClosestFromKeepFirst(items, i + 1, saturday, acc)
             ELSE LET item_date == CHOOSE n \in parsed : TRUE
                  IN  IF item_date <= saturday /\ acc.closest_date = {}
                      THEN ClosestFromKeepFirst(items, i + 1, saturday,
                               [raised |-> FALSE, closest_date |-> {item_date},
                                closest_parsha |-> item.title])
                      ELSE ClosestFromKeepFirst(items, i + 1, saturday, acc)

\* The loop of _find_closest_parsha_before_date from item i on.
RECURSIVE ClosestFrom(_, _, _, _)
ClosestFrom(items, i, saturday, acc) ==
    IF i > Len(items) THEN acc
    ELSE LET item == items[i]
             parsed == fromisoformat(item.date)
         IN  IF item.category # "parashat" THEN ClosestFrom(items, i + 1, saturday, acc)
             ELSE IF item.date.form \in {"absent", "empty"}
             THEN ClosestFrom(items, i + 1, saturday, acc)
             ELSE IF parsed = {} THEN ClosestFrom(items, i + 1, saturday, acc)
             ELSE LET item_date == CHOOSE n \in parsed : TRUE
                  IN  IF /\ item_date <= saturday
                         /\ (acc.closest_date = {} \/ \A c \in acc.closest_date : item_date > c)
                      THEN ClosestFrom(items, i + 1, saturday,
                               [raised |-> FALSE, closest_date |-> {item_date},
                                closest_parsha |-> item.title])
                      ELSE ClosestFrom(items, i + 1, saturday, acc)

find_closest_parsha_before_date(data, saturday) ==
    ClosestFrom(ItemsOf(data), 1, saturday, NoClosest)

\* Mutation: a Saturday is sent on to the Saturday of the following week.
get_saturday_after_date(target_date) ==
    LET days_until_saturday == (5 + 7 - Weekday(target_date)) % 7
    IN  IF days_until_saturday = 0
        THEN target_date + 7
        ELSE target_date + days_until_saturday

\* _get_saturday_for_date
get_saturday_for_date(target_date) ==
    LET days_until_saturday == (5 + 7 - Weekday(target_date)) % 7
    IN  IF days_until_saturday = 0 /\ Weekday(target_date) = 5
        THEN target_date
        ELSE target_date + days_until_saturday

\* The festival days of the parsha calendar besides the intermediate day.
HoshanaRabba == JewCalDay(TRUE, "Candles", "Hoshana Rabba", None)
SimchatTora == JewCalDay(TRUE, "Havdalah", "Shmini Atzeret / Simchat Tora", None)

\* Mutation: the names with "Chol HaMoed" are not among the special cases.
HasSpecialReadingNoCholHaMoed(event_name) ==
    event_name \in {"Hoshana Rabba", "Shmini Atzeret / Simchat Tora"}

\* any(s in event_name for s in ("Simchat Tora", "Hoshana Rabba", "Chol HaMoed"))
\* on the Yom Tov names of the model: "Pesach 1" holds none of the three.
HasSpecialReading(event_name) ==
    event_name \in {"Chol HaMoed 1 (Pesach 3)", "Hoshana Rabba",
                    "Shmini Atzeret / Simchat Tora"}

\* The special cases for the Torah reading during holidays.
IsSpecialCase(target_date) ==
    LET jewcal_obj == JewCal(target_date)
    IN  jewcal_obj.has_events /\ jewcal_obj.yomtov # None /\ HasSpecialReading(jewcal_obj.yomtov)

VezotHaberakhah == Str(HebrewPrefix, "he:Vezot Haberakhah")

\* The part of get_parsha_from_hebcal after the data is there: the exact match,
\* then the closest entry before; an error of the search is passed on.
ResolveParsha(data, saturday) ==
    LET exact == find_parsha_for_date(data, saturday)
        closest == find_closest_parsha_before_date(data, saturday)
    IN  IF Truthy(exact) THEN [raised |-> FALSE, result |-> translate_parsha(CleanTitle(exact))]
        ELSE IF closest.raised THEN [raised |-> TRUE, result |-> NoneStr]
        ELSE IF Truthy(closest.closest_parsha)
        THEN [raised |-> FALSE, result |-> translate_parsha(CleanTitle(closest.closest_parsha))]
        ELSE [raised |-> FALSE, result |-> NoneStr]

\* The dates the parsha is asked for: Saturday 2025-12-27, the four days after
\* it, whose Saturday lies in the next year, that Saturday and the one after it.
TargetDays == {5, 6, 7, 8, 9, 12, 19}

\* ResolveParsha on every answer of the source and every Saturday asked for,
\* computed once.
Resolved ==
    [data \in Payloads |->
        [saturday \in {get_saturday_for_date(t) : t \in TargetDays} |->
            ResolveParsha(data, saturday)]]

NoData == [is_none |-> TRUE, data |-> EmptyObject]
SomeData(data) == [is_none |-> FALSE, data |-> data]

\* _get_hebcal_data_for_year: the cached data, or one request whose answer is
\* stored; any exception of the request gives None and stores nothing.
get_hebcal_data_for_year(cache, year, outcome, payload) ==
    IF year \in DOMAIN cache
    THEN [got |-> SomeData(cache[year]), fetched |-> FALSE, cache |-> cache]
    ELSE IF outcome = "ok"
    THEN [got |-> SomeData(payload), fetched |-> TRUE,
          cache |-> [y \in DOMAIN cache \cup {year} |->
                        IF y = year THEN payload ELSE cache[y]]]
    ELSE [got |-> NoData, fetched |-> TRUE, cache |-> cache]

ParshaReturn(raised, result, fetched, cache) ==
    [raised |-> raised, result |-> result, fetched |-> fetched, cache |-> cache]

\* hebcal_api.get_parsha_from_hebcal
get_parsha_from_hebcal(target_date, cache, outcome, payload) ==
    IF IsSpecialCase(target_date)
    THEN ParshaReturn(FALSE, VezotHaberakhah, FALSE, cache)
    ELSE LET saturday == get_saturday_for_date(target_date)
             d == get_hebcal_data_for_year(cache, YearOf(saturday), outcome, payload)
         IN  IF d.got.is_none \/ IsEmptyObject(d.got.data)
             THEN ParshaReturn(FALSE, NoneStr, d.fetched, d.cache)
             ELSE LET r == Resolved[d.got.data][saturday]
                  IN  ParshaReturn(r.raised, r.result, d.fetched, d.cache)

\* make_shabbat_posts.get_parsha_from_hebcal: no cache, and the whole of the
\* request and the search inside one try/except Exception.
posts_get_parsha_from_hebcal(target_date, cache, outcome, payload) ==
    IF IsSpecialCase(target_date)
    THEN ParshaReturn(FALSE, VezotHaberakhah, FALSE, cache)
    ELSE LET saturday == get_saturday_for_date(target_date)
             r == Resolved[payload][saturday]
         IN  IF outcome # "ok" \/ r.raised
             THEN ParshaReturn(FALSE, NoneStr, TRUE, cache)
             ELSE ParshaReturn(FALSE, r.result, TRUE, cache)

\* Candles on every Friday and Havdalah on every Saturday.
WeeklyCalendar ==
    [d \in Days |-> IF Weekday(d) = FridayWeekday THEN DayKinds[2]
                    ELSE IF Weekday(d) = 5 THEN DayKinds[3] ELSE NoEventDay]

\* The weekly calendar with an intermediate festival day on day 6, Hoshana Rabba
\* on day 8 and Simchat Tora on day 9.
ParshaCalendar ==
    [WeeklyCalendar EXCEPT ![6] = DayKinds[5], ![8] = HoshanaRabba, ![9] = SimchatTora]

InitParsha ==
    /\ cal = ParshaCalendar
    /\ call = NoCall
    /\ ret = NoRet
    /\ CacheIdle
    /\ source \in Payloads
    /\ hebcal_cache = [y \in {} |-> EmptyObject]
    /\ fetches = [y \in {} |-> 0]
    /\ parsha = NoParshaCall
    /\ OtherIdle

Fetches(y) == IF y \in DOMAIN fetches THEN fetches[y] ELSE 0

\* One call of a get_parsha_from_hebcal; the request's outcome is an input of the
\* call only when a request is sent.
ParshaCall(variant, target, outcome, r) ==
    LET year == YearOf(get_saturday_for_date(target))
    IN  /\ r.fetched => Fetches(year) < MaxFetches
        /\ ~r.fetched => outcome = "ok"
        /\ hebcal_cache' = r.cache
        /\ fetches' = IF r.fetched
                      THEN [y \in DOMAIN fetches \cup {year} |->
                               IF y = year THEN Fetches(year) + 1 ELSE fetches[y]]
                      ELSE fetches
        /\ parsha' = [variant |-> variant, target |-> target, fetched |-> r.fetched,
                      outcome |-> IF r.fetched THEN outcome ELSE "none",
                      cache_was_empty |-> (DOMAIN hebcal_cache = {}),
                      raised |-> r.raised, result |-> r.result]
        /\ UNCHANGED <<cal, seqVars, cacheVars, source, otherVars>>

GetParshaFromHebcal ==
    \E target \in TargetDays, outcome \in Outcomes :
        ParshaCall("hebcal_api", target, outcome,
                   get_parsha_from_hebcal(target, hebcal_cache, outcome, source))

PostsGetParshaFromHebcal ==
    \E target \in TargetDays, outcome \in Outcomes :
        ParshaCall("make_shabbat_posts", target, outcome,
                   posts_get_parsha_from_hebcal(target, hebcal_cache, outcome, source))

\* clear_hebcal_cache()
ClearHebcalCache ==
    /\ hebcal_cache' = [y \in {} |-> EmptyObject]
    /\ fetches' = [y \in {} |-> 0]
    /\ parsha' = NoParshaCall
    /\ UNCHANGED <<cal, seqVars, cacheVars, source, otherVars>>

NextParsha == GetParshaFromHebcal \/ PostsGetParshaFromHebcal \/ ClearHebcalCache

SpecParsha == InitParsha /\ [][NextParsha]_vars

\* A process that resolves the parsha through hebcal_api alone.
NextHebcalApi == GetParshaFromHebcal \/ ClearHebcalCache

SpecHebcalApi == InitParsha /\ [][NextHebcalApi]_vars

(***************************************************************************)
(* Properties of the sequence extender and finder.                         *)
(***************************************************************************)
\* The dates of the returned sequence.
SeqRange == ret.start_date .. ret.end_date

\* The dates of the search horizon of the call that have a qualifying action.
QualifyingInHorizon ==
    {d \in call.arg .. (call.arg + SearchDays - 1) : HasQualifyingAction(JewCal(d))}

Earliest(S) == CHOOSE d \in S : \A e \in S : d <= e

\* C1: when find_next_sequence finds a trigger inside its search horizon, every
\* date of the returned closed range [start_date, end_date] has a qualifying
\* action (Candles or Havdalah).
C1_EveryDateQualifies ==
    (call.op = "find_next_sequence" /\ ~call.fallback) =>
        \A d \in SeqRange : HasQualifyingAction(JewCal(d))

\* A resolved sequence of three days that starts before the supplied start date.
C1_Witness ==
    /\ call.op = "find_next_sequence"
    /\ ~call.fallback
    /\ ret.end_date - ret.start_date >= 2
    /\ ret.start_date < call.arg

\* C2: in a sequence returned by find_event_sequence for a trigger date with a
\* qualifying action, every date of the range other than end_date carries
\* Candles, so no non-final date carries Havdalah.
C2_OnlyFinalDateHavdalah ==
    (call.op = "find_event_sequence" /\ HasQualifyingAction(JewCal(call.trigger))) =>
        \A d \in SeqRange : d # ret.end_date => JewCal(d).action = "Candles"

\* A sequence that ends with Havdalah and starts right after a day with Havdalah.
C2_Witness ==
    /\ call.op = "find_event_sequence"
    /\ HasQualifyingAction(JewCal(call.trigger))
    /\ ret.start_date < ret.end_date
    /\ call.trigger = ret.end_date
    /\ JewCal(ret.end_date).action = "Havdalah"
    /\ JewCal(ret.start_date - 1).action = "Havdalah"

\* C3: find_next_sequence returns start_date <= end_date with the trigger date
\* inside [start_date, end_date] and end_date on or after the supplied start
\* date, in the Friday-fallback branch too.
C3_RangeWellFormed ==
    call.op = "find_next_sequence" =>
        /\ ret.start_date <= ret.end_date
        /\ ret.start_date <= call.trigger
        /\ call.trigger <= ret.end_date
        /\ ret.end_date >= call.arg

\* The fallback branch with a trigger that has no qualifying action, where the
\* backward walk still moved the start before the supplied start date.
C3_Witness ==
    /\ call.op = "find_next_sequence"
    /\ call.fallback
    /\ ~HasQualifyingAction(JewCal(call.trigger))
    /\ ret.start_date < call.arg

\* C5: find_next_sequence(start) extends from the earliest date with a qualifying
\* action among start .. start+13 when there is one, and never takes a date at
\* start+14 or later as the trigger.
C5_EarliestTriggerInHorizon ==
    call.op = "find_next_sequence" =>
        /\ call.trigger < call.arg + SearchDays
        /\ QualifyingInHorizon # {} =>
              /\ ~call.fallback
              /\ call.trigger = Earliest(QualifyingInHorizon)
              /\ ret = find_event_sequence(Earliest(QualifyingInHorizon))

\* Two qualifying dates late in the horizon and a third one just past it.
C5_Witness ==
    /\ call.op = "find_next_sequence"
    /\ Cardinality(QualifyingInHorizon) >= 2
    /\ call.trigger > call.arg
    /\ HasQualifyingAction(JewCal(call.arg + SearchDays))

\* The fallback Friday as the text states it.
FirstFridayOnOrAfter(d) ==
    CHOOSE f \in d .. (d + 6) : Weekday(f) = FridayWeekday

FallbackFriday(d, hour) ==
    IF Weekday(d) = FridayWeekday /\ hour >= NoonHour
    THEN d + 7
    ELSE FirstFridayOnOrAfter(d)

\* C6: with no qualifying action in start .. start+13, find_next_sequence extends
\* from the fallback Friday: start + 7 on a Friday from noon on, otherwise the
\* first Friday on or after start; next_friday returns a Friday f with
\* start <= f <= start + 7.
C6_FridayFallback ==
    /\ \A d \in StartDays, h \in Hours :
          /\ Weekday(next_friday(d, h)) = FridayWeekday
          /\ d <= next_friday(d, h)
          /\ next_friday(d, h) <= d + 7
    /\ (call.op = "find_next_sequence" /\ QualifyingInHorizon = {}) =>
          /\ call.fallback
          /\ call.trigger = FallbackFriday(call.arg, call.hour)
          /\ ret = find_event_sequence(FallbackFriday(call.arg, call.hour))

\* The fallback taken on a Friday at noon: the following Friday is used.
C6_Witness ==
    /\ call.op = "find_next_sequence"
    /\ call.fallback
    /\ call.clock_read
    /\ call.hour = NoonHour
    /\ call.trigger = call.arg + 7

\* Days d0 .. dn (d0 < dn) form a run: Candles on d0 .. dn-1, Havdalah on dn, and
\* the day before d0 has no qualifying action or has Havdalah.
IsRun(d0, dn) ==
    /\ d0 < dn
    /\ \A d \in d0 .. (dn - 1) :
          HasQualifyingAction(JewCal(d)) /\ JewCal(d).action = "Candles"
    /\ HasQualifyingAction(JewCal(dn)) /\ JewCal(dn).action = "Havdalah"
    /\ (~HasQualifyingAction(JewCal(d0 - 1)) \/ JewCal(d0 - 1).action = "Havdalah")

\* C7: find_event_sequence called with any trigger date of a run d0 .. dn returns
\* one and the same sequence, with start_date = d0 and end_date = dn.
C7_RunIsOneSequence ==
    call.op = "find_event_sequence" =>
        \A d0 \in (call.trigger - MaxBlock) .. call.trigger,
           dn \in call.trigger .. (call.trigger + MaxBlock) :
            IsRun(d0, dn) =>
                /\ ret.start_date = d0
                /\ ret.end_date = dn
                /\ \A t \in d0 .. dn : find_event_sequence(t) = ret

\* A festival day, a second one and Shabbat in one run, entered in the middle.
C7_Witness ==
    /\ call.op = "find_event_sequence"
    /\ IsRun(call.trigger - 1, call.trigger + 1)
    /\ JewCal(call.trigger - 1).yomtov # None
    /\ JewCal(call.trigger + 1).shabbos # None
    /\ ret.start_date = call.trigger - 1
    /\ ret.end_date = call.trigger + 1

(***************************************************************************)
(* Properties of the day cache.                                            *)
(***************************************************************************)
\* The keys looked up since the cache was last cleared.
KeysLookedUp == DOMAIN first_ret

\* C4 as stated: between two cache clears the Oracle is invoked at most once for
\* each key, over any number of distinct keys, and every lookup of a key
\* returns a result equal to the first one for that key.
C4_OncePerKeyAnyNumberOfKeys ==
    /\ \A i \in DOMAIN oracle_calls : oracle_calls[i] <= 1
    /\ lookup.key \in KeysLookedUp => lookup.result = first_ret[lookup.key]

\* C4 (amended): between two cache clears, while no more than maxsize = 128
\* distinct keys have been looked up, the Oracle is invoked at most once for
\* each key; every lookup of a key returns a result equal to the first one for
\* that key, evicted or not.
C4_OncePerKeyWithinCapacity ==
    /\ Cardinality(KeysLookedUp) <= maxsize =>
          \A i \in DOMAIN oracle_calls : oracle_calls[i] <= 1
    /\ lookup.key \in KeysLookedUp => lookup.result = first_ret[lookup.key]

\* The cache is exactly full and the first key, not used since, is looked up
\* again: a hit, and its JewCal was constructed once.
C4_Witness ==
    /\ Cardinality(KeysLookedUp) = maxsize
    /\ lookup.key = 0
    /\ lookup.hit
    /\ oracle_calls[0] = 1
    /\ jewcal_cache[1].key = CacheKey(1)

(***************************************************************************)
(* Properties of the parsha resolver.                                      *)
(***************************************************************************)
\* C8: between two cache clears the source is queried at most once for each
\* calendar year, whether the first query for the year succeeded or failed.
C8_AtMostOneFetchPerYear ==
    \A y \in DOMAIN fetches : fetches[y] <= 1

\* The Saturday the last call resolved the parsha for.
TargetSaturday == get_saturday_for_date(parsha.target)

\* An entry of the data usable for a Saturday: a parashat item with a title and a
\* date that parses to a day on or before the Saturday.
Usable(data, saturday) ==
    \E i \in DOMAIN ItemsOf(data) :
        LET item == ItemsOf(data)[i]
        IN  /\ item.category = "parashat"
            /\ Truthy(item.title)
            /\ \E n \in fromisoformat(item.date) : n <= saturday

\* The last call went past the special cases and had the source's data in hand.
HadData ==
    /\ parsha.variant # "none"
    /\ ~IsSpecialCase(parsha.target)
    /\ parsha.fetched => parsha.outcome = "ok"

C10_ParshaFromLocalData ==
    ( /\ parsha.variant = "hebcal_api"
      /\ parsha.cache_was_empty
      /\ Weekday(parsha.target) = 5
      /\ ~IsSpecialCase(parsha.target)
      /\ parsha.fetched
      /\ \/ parsha.outcome = "raises"
         \/ parsha.outcome = "ok" /\ source = ItemsObject(<<>>) )
    => (parsha.result.some /\ parsha.result.prefix = HebrewPrefix)

\* The Yom Tov names of the calendars that contain "Simchat Tora", "Hoshana Rabba"
\* or "Chol HaMoed".
NamedInSpecialCase ==
    {"Chol HaMoed 1 (Pesach 3)", "Hoshana Rabba", "Shmini Atzeret / Simchat Tora"}

\* C11: for a date whose Yom Tov name contains "Simchat Tora", "Hoshana Rabba" or
\* "Chol HaMoed", get_parsha_from_hebcal returns Vezot Haberakhah, sends no
\* request to the source and leaves the year cache as it was, in every cache
\* state.
C11_SpecialCaseNoNetwork ==
    [][ (parsha'.variant # "none" /\ JewCal(parsha'.target).yomtov \in NamedInSpecialCase)
        => /\ parsha'.result = VezotHaberakhah
           /\ ~parsha'.raised
           /\ ~parsha'.fetched
           /\ fetches' = fetches
           /\ hebcal_cache' = hebcal_cache ]_vars

\* hebcal_api resolved the intermediate festival day while the cache held the
\* data of both years, one of them fetched after a failed request.
C11_Witness ==
    /\ parsha.variant = "hebcal_api"
    /\ parsha.target = 6
    /\ parsha.result = VezotHaberakhah
    /\ DOMAIN hebcal_cache = {2025, 2026}
    /\ Fetches(2026) = 2

\* The parashat entries of the source's answer, by their place in the list, that
\* carry exactly the date text of the Saturday.
ExactEntries(saturday) ==
    {i \in DOMAIN ItemsOf(source) :
        /\ ItemsOf(source)[i].category = "parashat"
        /\ ItemsOf(source)[i].date = isoformat(saturday)}

\* The parashat entries whose date parses to a day on or before the Saturday.
PriorEntries(saturday) ==
    {i \in DOMAIN ItemsOf(source) :
        /\ ItemsOf(source)[i].category = "parashat"
        /\ \E n \in fromisoformat(ItemsOf(source)[i].date) : n <= saturday}

EntryDate(i) == CHOOSE n \in fromisoformat(ItemsOf(source)[i].date) : TRUE

\* The entries with the greatest date among the prior ones.
NearestPriorEntries(saturday) ==
    {i \in PriorEntries(saturday) :
        \A j \in PriorEntries(saturday) : EntryDate(j) <= EntryDate(i)}

\* What an entry's title resolves to: its translation, None without a title.
FromTitle(title) ==
    IF Truthy(title) THEN translate_parsha(CleanTitle(title)) ELSE NoneStr

\* The first in list order of a set of entries.
First(S) == CHOOSE i \in S : \A j \in S : i <= j

\* The result the source's answer gives for the Saturday.
ExpectedParsha(saturday) ==
    IF ExactEntries(saturday) # {}
    THEN FromTitle(ItemsOf(source)[First(ExactEntries(saturday))].title)
    ELSE IF PriorEntries(saturday) # {}
    THEN FromTitle(ItemsOf(source)[First(NearestPriorEntries(saturday))].title)
    ELSE NoneStr

Threads == {"A", "B"}

\* The dates the two threads ask for: no special case among them.
RaceTargets == {5, 7, 12}

RaceYear(t) == YearOf(get_saturday_for_date(race.threads[t].target))

\* Mutation: the answer of the request is not stored.
cache_store_nothing(cache, year, data) == cache

\* _hebcal_cache[year] = data
cache_store(cache, year, data) ==
    [y \in DOMAIN cache \cup {year} |-> IF y = year THEN data ELSE cache[y]]

\* Both threads are about to look into the empty cache for the same year; the
\* source does the same thing on every request.
InitRace ==
    /\ cal = ParshaCalendar
    /\ call = NoCall
    /\ ret = NoRet
    /\ CacheIdle
    /\ source \in Payloads
    /\ hebcal_cache = [y \in {} |-> EmptyObject]
    /\ fetches = [y \in {} |-> 0]
    /\ parsha = NoParshaCall
    /\ TimesIdle
    /\ PosterIdle
    /\ HelpersIdle
    /\ \E outcome \in Outcomes, target \in [Threads -> RaceTargets] :
          /\ YearOf(get_saturday_for_date(target["A"])) =
                YearOf(get_saturday_for_date(target["B"]))
          /\ race = [outcome |-> outcome,
                     threads |-> [t \in Threads |->
                                    [pc |-> "check", target |-> target[t],
                                     data |-> NoData, result |-> NoneStr]]]

\* if year in _hebcal_cache: return _hebcal_cache[year]
RaceCheck(t) ==
    /\ race.threads[t].pc = "check"
    /\ race' = IF RaceYear(t) \in DOMAIN hebcal_cache
               THEN [race EXCEPT !.threads[t].pc = "search",
                                 !.threads[t].data = SomeData(hebcal_cache[RaceYear(t)])]
               ELSE [race EXCEPT !.threads[t].pc = "fetch"]
    /\ UNCHANGED <<cal, seqVars, cacheVars, source, hebcal_cache, fetches, parsha, timesVars, posterVars, helperVars>>

\* requests.get, raise_for_status, response.json(); an exception returns None.
RaceFetch(t) ==
    /\ race.threads[t].pc = "fetch"
    /\ fetches' = [y \in DOMAIN fetches \cup {RaceYear(t)} |->
                      IF y = RaceYear(t) THEN Fetches(y) + 1 ELSE fetches[y]]
    /\ race' = IF race.outcome = "ok"
               THEN [race EXCEPT !.threads[t].pc = "store",
                                 !.threads[t].data = SomeData(source)]
               ELSE [race EXCEPT !.threads[t].pc = "search",
                                 !.threads[t].data = NoData]
    /\ UNCHANGED <<cal, seqVars, cacheVars, source, hebcal_cache, parsha, timesVars, posterVars, helperVars>>

\* _hebcal_cache[year] = data; return data
RaceStore(t) ==
    /\ race.threads[t].pc = "store"
    /\ hebcal_cache' = cache_store(hebcal_cache, RaceYear(t), race.threads[t].data.data)
    /\ race' = [race EXCEPT !.threads[t].pc = "search"]
    /\ UNCHANGED <<cal, seqVars, cacheVars, source, fetches, parsha, timesVars, posterVars, helperVars>>

\* if not data: return None, then the exact match and the closest entry.
RaceSearch(t) ==
    /\ race.threads[t].pc = "search"
    /\ LET d == race.threads[t].data
           saturday == get_saturday_for_date(race.threads[t].target)
       IN  race' = [race EXCEPT
                      !.threads[t].pc = "done",
                      !.threads[t].result =
                          IF d.is_none \/ IsEmptyObject(d.data) THEN NoneStr
                          ELSE ResolveParsha(d.data, saturday).result]
    /\ UNCHANGED <<cal, seqVars, cacheVars, hebcalVars, timesVars, posterVars, helperVars>>

NextRace ==
    \E t \in Threads : RaceCheck(t) \/ RaceFetch(t) \/ RaceStore(t) \/ RaceSearch(t)

SpecRace == InitRace /\ [][NextRace]_vars

(***************************************************************************)
(* Properties of the two threads.                                          *)
(***************************************************************************)
RaceDone == race.outcome # "none" /\ \A t \in Threads : race.threads[t].pc = "done"

\* The two calls one after the other, A first, on the empty cache.
SequentialA ==
    get_parsha_from_hebcal(race.threads["A"].target, [y \in {} |-> EmptyObject],
                           race.outcome, source)

SequentialB ==
    get_parsha_from_hebcal(race.threads["B"].target, SequentialA.cache, race.outcome, source)

SequentialFetches ==
    (IF SequentialA.fetched THEN 1 ELSE 0) + (IF SequentialB.fetched THEN 1 ELSE 0)

\* C13: when two threads call get_parsha_from_hebcal for the same uncached year
\* and the source does the same on every request, then under every interleaving
\* of their cache checks, requests and cache stores both return what a
\* sequential run returns, the year cache ends as the sequential run leaves it,
\* and at most one request more is sent than in the sequential run.
C13_RaceIsSafe ==
    RaceDone =>
        /\ race.threads["A"].result = SequentialA.result
        /\ race.threads["B"].result = SequentialB.result
        /\ hebcal_cache = SequentialB.cache
        /\ Fetches(RaceYear("A")) <= SequentialFetches + 1
        /\ Fetches(RaceYear("A")) <= 2

\* Both threads missed the cache, both sent a request and both stored the
\* answer; the answer holds an entry for the Saturday.
C13_Witness ==
    /\ RaceDone
    /\ race.outcome = "ok"
    /\ Fetches(RaceYear("A")) = 2
    /\ race.threads["A"].target = 7 /\ race.threads["B"].target = 12
    /\ race.threads["A"].result = translate_parsha("Vayechi")
    /\ hebcal_cache = cache_store([y \in {} |-> EmptyObject], 2026, source)

(***************************************************************************)
(* jewcal_times_for_sequence: the times of a sequence at one location.     *)
(***************************************************************************)
\* A sequence handed to jewcal_times_for_sequence spans at most MaxSeqDays days.
MaxSeqDays == 3

\* The days of the sequences: Thursday 2025-12-25 and the days after it.
TimesDays == 3 .. (3 + MaxSeqDays - 1)

\* What zmanim.to_dict() may hold for day d: every zman, no stars-visible
\* value, neither of the two concluding values, only the concluding values, no
\* value at all; or the day has no zmanim.
ZmanimKinds(d) ==
    { [present |-> TRUE, hadlokas_haneiros |-> Zman(d, "hadlokas_haneiros"),
       tzeis_hakochavim |-> Zman(d, "tzeis_hakochavim"),
       tzeis_minutes |-> Zman(d, "tzeis_minutes")],
      [present |-> TRUE, hadlokas_haneiros |-> Zman(d, "hadlokas_haneiros"),
       tzeis_hakochavim |-> NoTime, tzeis_minutes |-> Zman(d, "tzeis_minutes")],
      [present |-> TRUE, hadlokas_haneiros |-> Zman(d, "hadlokas_haneiros"),
       tzeis_hakochavim |-> NoTime, tzeis_minutes |-> NoTime],
      [present |-> TRUE, hadlokas_haneiros |-> NoTime,
       tzeis_hakochavim |-> Zman(d, "tzeis_hakochavim"),
       tzeis_minutes |-> Zman(d, "tzeis_minutes")],
      [present |-> TRUE, hadlokas_haneiros |-> NoTime,
       tzeis_hakochavim |-> NoTime, tzeis_minutes |-> NoTime],
      NoZmanim }

\* The calendars of the sequences: the weekly one, a festival day before the
\* eve of Shabbat, and Hoshana Rabba followed by Simchat Tora.
TimesCalendars ==
    { WeeklyCalendar,
      [WeeklyCalendar EXCEPT ![3] = DayKinds[4]],
      [WeeklyCalendar EXCEPT ![3] = HoshanaRabba, ![4] = SimchatTora] }

\* zmanim_dict.get(name): truthy
Available(time) == time # NoTime

\* Mutation: the candle-lighting time is read from the zmanim of a sequence's
\* last day.
candle_time_of_end(start_date, end_date) ==
    IF zmanim[end_date].present /\ Available(zmanim[end_date].hadlokas_haneiros)
    THEN zmanim[end_date].hadlokas_haneiros
    ELSE NoTime

\* candle_time: hadlokas_haneiros of the start of the sequence
candle_time(start_date, end_date) ==
    IF zmanim[start_date].present /\ Available(zmanim[start_date].hadlokas_haneiros)
    THEN zmanim[start_date].hadlokas_haneiros
    ELSE NoTime

\* Mutation: the fixed minutes after sunset are preferred to the stars-visible value.
havdalah_of_minutes_first(end_zmanim) ==
    IF ~end_zmanim.present THEN NoTime
    ELSE IF Available(end_zmanim.tzeis_minutes) THEN end_zmanim.tzeis_minutes
    ELSE IF Available(end_zmanim.tzeis_hakochavim) THEN end_zmanim.tzeis_hakochavim
    ELSE NoTime

\* havdalah_time out of the zmanim of the end of the sequence
havdalah_of(end_zmanim) ==
    IF ~end_zmanim.present THEN NoTime
    ELSE IF Available(end_zmanim.tzeis_hakochavim) THEN end_zmanim.tzeis_hakochavim
    ELSE IF Available(end_zmanim.tzeis_minutes) THEN end_zmanim.tzeis_minutes
    ELSE NoTime

havdalah_time(start_date, end_date) == havdalah_of(zmanim[end_date])

\* (event_type, event_name) of one day: Yom Tov before Shabbat.
EventOf(j) ==
    IF j.has_events /\ j.yomtov # None THEN [type |-> "yomtov", name |-> j.yomtov]
    ELSE IF j.has_events /\ j.shabbos # None THEN [type |-> "shabbos", name |-> j.shabbos]
    ELSE [type |-> None, name |-> None]

\* "Simchat Tora" in end_event_name or "Shmini Atzeret" in end_event_name, on
\* the names of the model.
IsMajorEndEvent(event_name) == event_name \in {"Shmini Atzeret / Simchat Tora"}

jewcal_times_for_sequence(start_date, end_date) ==
    LET start_event == EventOf(JewCal(start_date))
        end_event == EventOf(JewCal(end_date))
        event == IF end_event.name # None /\ IsMajorEndEvent(end_event.name)
                 THEN end_event ELSE start_event
    IN  [start_date |-> start_date, end_date |-> end_date,
         candle |-> candle_time(start_date, end_date),
         havdalah |-> havdalah_time(start_date, end_date),
         event_type |-> event.type, event_name |-> event.name,
         action |-> IF JewCal(start_date).has_events THEN JewCal(start_date).action ELSE None,
         parsha_resolved |-> \/ event.type = "shabbos"
                             \/ \E d \in start_date .. end_date : Weekday(d) = 5]

InitTimes ==
    /\ cal \in TimesCalendars
    /\ call = NoCall
    /\ ret = NoRet
    /\ CacheIdle
    /\ HebcalIdle
    /\ race = NoRace
    /\ PosterIdle
    /\ HelpersIdle
    /\ zmanim \in [TimesDays -> UNION {ZmanimKinds(d) : d \in TimesDays}]
    /\ \A d \in TimesDays : zmanim[d] \in ZmanimKinds(d)
    /\ times = NoTimes

JewcalTimesForSequence ==
    \E start_date \in TimesDays, end_date \in TimesDays :
        /\ start_date <= end_date
        /\ times' = jewcal_times_for_sequence(start_date, end_date)
        /\ UNCHANGED <<cal, seqVars, cacheVars, hebcalVars, race, zmanim, posterVars, helperVars>>

NextTimes == JewcalTimesForSequence

SpecTimes == InitTimes /\ [][NextTimes]_vars

(***************************************************************************)
(* Properties of the times of a sequence.                                  *)
(***************************************************************************)
TimesCalled == times.start_date >= 0

\* C14: the candle-lighting time jewcal_times_for_sequence returns is the
\* hadlokas_haneiros of start_date and the havdalah time is a concluding zman
\* of end_date; no time of any other day is returned, for sequences of one day
\* and of several days.
C14_CandleFromStartHavdalahFromEnd ==
    TimesCalled =>
        /\ times.candle \in {NoTime, Zman(times.start_date, "hadlokas_haneiros")}
        /\ times.havdalah \in {NoTime, Zman(times.end_date, "tzeis_hakochavim"),
                                Zman(times.end_date, "tzeis_minutes")}
        /\ Available(zmanim[times.start_date].hadlokas_haneiros)
              => times.candle = Zman(times.start_date, "hadlokas_haneiros")
        /\ Available(zmanim[times.end_date].tzeis_hakochavim)
              => times.havdalah = Zman(times.end_date, "tzeis_hakochavim")

\* A sequence of three days on each of which every zman is there.
C14_Witness ==
    /\ TimesCalled
    /\ times.end_date = times.start_date + 2
    /\ \A d \in times.start_date .. times.end_date :
          Available(zmanim[d].hadlokas_haneiros) /\ Available(zmanim[d].tzeis_hakochavim)
    /\ times.candle = Zman(times.start_date, "hadlokas_haneiros")
    /\ times.havdalah = Zman(times.end_date, "tzeis_hakochavim")

\* C15: the havdalah time of a sequence is the stars-visible value
\* (tzeis_hakochavim) whenever it is available, the fixed minutes after sunset
\* (tzeis_minutes) only when the stars-visible value is not, and absent only
\* when neither is available.
C15_StarsThenMinutes ==
    TimesCalled =>
        LET z == zmanim[times.end_date]
        IN  /\ Available(z.tzeis_hakochavim) => times.havdalah = z.tzeis_hakochavim
            /\ (~Available(z.tzeis_hakochavim) /\ Available(z.tzeis_minutes))
                  => times.havdalah = z.tzeis_minutes
            /\ times.havdalah = NoTime
                  <=> (~Available(z.tzeis_hakochavim) /\ ~Available(z.tzeis_minutes))

\* The last day has no stars-visible value and the fixed minutes are returned.
C15_Witness ==
    /\ TimesCalled
    /\ times.start_date < times.end_date
    /\ ~Available(zmanim[times.end_date].tzeis_hakochavim)
    /\ times.havdalah = Zman(times.end_date, "tzeis_minutes")

(***************************************************************************)
(* make_shabbat_posts.generate_poster: one poster for a list of cities.    *)
(***************************************************************************)
\* A request names at most MaxCities cities.
MaxCities == 2

\* The cities a request may name (coordinates left out: the zmanim are the
\* Oracle's).
CityKinds ==
    << [name |-> "he:Jerusalem", candle_offset |-> 40],
       [name |-> "he:Tel Aviv", candle_offset |-> 20] >>

CityLists ==
    UNION { { [k \in 1 .. n |-> CityKinds[f[k]]] : f \in [1 .. n -> DOMAIN CityKinds] } :
              n \in 0 .. MaxCities }

\* The dates a poster is asked for: a Thursday and the Sunday after it.
PosterStartDays == {3, 6}

\* Every zman of every day is there.
FullZmanim ==
    [d \in Days |-> [present |-> TRUE, hadlokas_haneiros |-> Zman(d, "hadlokas_haneiros"),
                     tzeis_hakochavim |-> Zman(d, "tzeis_hakochavim"),
                     tzeis_minutes |-> Zman(d, "tzeis_minutes")]]

\* The answers of the source while posters are made.
PosterPayloads == {ItemsObject(<<ItemKinds[1], ItemKinds[2]>>), ItemsObject(<<>>)}

\* iso_to_hhmm: the clock time shown for a time, "--:--" for none.
iso_to_hhmm(time) == IF Available(time) THEN [hhmm_of |-> time] ELSE [hhmm_of |-> NoTime]

\* The body of the loop for one city: info is what jewcal_times_for_sequence
\* returned for it, p what the resolution of the parsha does when it is asked.
CityTurn(acc, city, info, p) ==
    [rows |-> Append(acc.rows, [name |-> city.name,
                                candle |-> iso_to_hhmm(info.candle),
                                havdalah |-> iso_to_hhmm(info.havdalah)]),
     parsha_name |-> IF ~acc.parsha_name.some /\ info.parsha_resolved /\ p.result.some
                     THEN p.result ELSE acc.parsha_name,
     event_info |-> IF acc.event_info.is_none
                    THEN [is_none |-> FALSE, event_name |-> info.event_name,
                          event_type |-> info.event_type, action |-> info.action]
                    ELSE acc.event_info,
     times_calls |-> acc.times_calls + 1,
     parsha_calls |-> acc.parsha_calls + (IF info.parsha_resolved THEN 1 ELSE 0),
     requests |-> acc.requests + (IF info.parsha_resolved /\ p.fetched THEN 1 ELSE 0)]

\* The loop over the cities from city i on. outcomes[i] is what the request to
\* the source does when the parsha is resolved for city i.
RECURSIVE CitiesLoop(_, _, _, _, _, _)
CitiesLoop(cities, i, seq_start, seq_end, outcomes, acc) ==
    IF i > Len(cities) THEN acc
    ELSE CitiesLoop(cities, i + 1, seq_start, seq_end, outcomes,
             CityTurn(acc, cities[i],
                      jewcal_times_for_sequence(seq_start, seq_end),
                      posts_get_parsha_from_hebcal(seq_start, hebcal_cache,
                                                   outcomes[i], source)))

\* What generate_poster has at hand after the loop. compose_poster reads
\* week_info["event_info"].get(...), which raises when event_info is None.
PosterOutcome(start_date, cities, seq_start, seq_end, done) ==
    [called |-> TRUE, start_date |-> start_date, cities |-> cities,
     raised |-> done.event_info.is_none,
     seq_start |-> seq_start, seq_end |-> seq_end,
     parsha_name |-> done.parsha_name, event_info |-> done.event_info,
     rows |-> done.rows, find_next_sequence_calls |-> 1,
     times_calls |-> done.times_calls, parsha_calls |-> done.parsha_calls,
     requests |-> done.requests]

\* The loop of generate_poster for the resolved sequence.
PosterForSequence(start_date, cities, outcomes, seq_start, seq_end) ==
    PosterOutcome(start_date, cities, seq_start, seq_end,
        CitiesLoop(cities, 1, seq_start, seq_end, outcomes,
                   [rows |-> <<>>, parsha_name |-> NoneStr, event_info |-> NoEventInfo,
                    times_calls |-> 0, parsha_calls |-> 0, requests |-> 0]))

\* The sequence found, handed on with both its ends.
SequenceEnds(start_date, cities, outcomes, seq) ==
    PosterForSequence(start_date, cities, outcomes, seq.start_date, seq.end_date)

\* generate_poster with a start date and a list of cities.
generate_poster(start_date, hour, cities, outcomes) ==
    SequenceEnds(start_date, cities, outcomes, find_next_sequence(start_date, hour))

InitPoster ==
    /\ cal \in TimesCalendars
    /\ call = NoCall
    /\ ret = NoRet
    /\ CacheIdle
    /\ source \in PosterPayloads
    /\ hebcal_cache = [y \in {} |-> EmptyObject]
    /\ fetches = [y \in {} |-> 0]
    /\ parsha = NoParshaCall
    /\ race = NoRace
    /\ zmanim = FullZmanim
    /\ times = NoTimes
    /\ PosterIdle
    /\ HelpersIdle

\* The state after a call of generate_poster that came to r.
PosterDone(r, year) ==
    /\ Fetches(year) + r.requests <= MaxFetches
    /\ poster' = [f \in DOMAIN NoPoster |-> r[f]]
    /\ fetches' = IF r.requests > 0
                  THEN [y \in DOMAIN fetches \cup {year} |->
                           IF y = year THEN Fetches(year) + r.requests ELSE fetches[y]]
                  ELSE fetches
    /\ UNCHANGED <<cal, seqVars, cacheVars, source, hebcal_cache, parsha,
                   race, timesVars, helperVars>>

PosterCalled(r) == PosterDone(r, YearOf(get_saturday_for_date(r.seq_start)))

\* One call of generate_poster. Every calendar here has Candles within the
\* search horizon, so find_next_sequence does not read the clock.
GeneratePoster ==
    \E start_date \in PosterStartDays, cities \in CityLists :
        \E outcomes \in [1 .. Len(cities) -> {"ok", "raises"}] :
            PosterCalled(generate_poster(start_date, NoonHour, cities, outcomes))

NextPoster == GeneratePoster

SpecPoster == InitPoster /\ [][NextPoster]_vars

(***************************************************************************)
(* Properties of generate_poster.                                          *)
(***************************************************************************)
\* C16: in generate_poster for N >= 1 cities the event sequence is resolved once
\* and get_parsha_from_hebcal is invoked once, whatever N is; the zmanim are
\* computed once for each city.
C16_SequenceAndParshaOnce ==
    (poster.called /\ Len(poster.cities) >= 1) =>
        /\ poster.find_next_sequence_calls = 1
        /\ poster.parsha_calls = 1
        /\ poster.times_calls = Len(poster.cities)

\* C17: generate_poster with an empty list of cities does not fail and still
\* has the event descriptor of the sequence.
C17_EmptyCitiesStillAssembles ==
    (poster.called /\ Len(poster.cities) = 0) =>
        /\ ~poster.raised
        /\ ~poster.event_info.is_none

(***************************************************************************)
(* hebcal_api._get_saturday_for_date, applied on its own.                  *)
(***************************************************************************)
\* The dates the helper is applied to: every weekday, MaxWeeks times over.
SaturdayTargets == 0 .. (7 * MaxWeeks - 1)

InitSaturday ==
    /\ cal = WeeklyCalendar
    /\ call = NoCall
    /\ ret = NoRet
    /\ CacheIdle
    /\ HebcalIdle
    /\ OtherIdle

\* _get_saturday_for_date(target_date) for a date of the caller's choice.
GetSaturdayForDate ==
    \E target_date \in SaturdayTargets :
        /\ sat_call' = [called |-> TRUE, target_date |-> target_date,
                        result |-> get_saturday_for_date(target_date)]
        /\ UNCHANGED <<cal, seqVars, cacheVars, hebcalVars, race, timesVars, posterVars,
                       upcoming, mapping, helper_call, candles>>

\* _get_saturday_for_date applied to the date it returned last.
GetSaturdayForResult ==
    /\ sat_call.called
    /\ sat_call' = [called |-> TRUE, target_date |-> sat_call.result,
                    result |-> get_saturday_for_date(sat_call.result)]
    /\ UNCHANGED <<cal, seqVars, cacheVars, hebcalVars, race, timesVars, posterVars,
                   upcoming, mapping, helper_call, candles>>

NextSaturday == GetSaturdayForDate \/ GetSaturdayForResult

SpecSaturday == InitSaturday /\ [][NextSaturday]_vars

(***************************************************************************)
(* Properties of _get_saturday_for_date.                                   *)
(***************************************************************************)
\* C18: _get_saturday_for_date(d) is a Saturday s with d <= s <= d + 6; s = d
\* when d is a Saturday, so that applying the helper to its own result changes
\* nothing; a Sunday is sent to the Saturday six days later.
C18_SaturdayOfTheWeek ==
    /\ [](sat_call.called =>
            /\ Weekday(sat_call.result) = 5
            /\ sat_call.target_date <= sat_call.result
            /\ sat_call.result <= sat_call.target_date + 6
            /\ Weekday(sat_call.target_date) = 5 => sat_call.result = sat_call.target_date
            /\ Weekday(sat_call.target_date) = 6 => sat_call.result = sat_call.target_date + 6)
    /\ [][GetSaturdayForResult => sat_call'.result = sat_call.result]_vars

\* A Sunday was sent to the Saturday six days later.
C18_Witness ==
    /\ sat_call.called
    /\ Weekday(sat_call.target_date) = 6
    /\ sat_call.result = sat_call.target_date + 6

(***************************************************************************)
(* The loop that enumerates sequences (service.get_upcoming_events, and    *)
(* the loop of the full-year test): find_next_sequence(current_date), then *)
(* current_date = seq_end + 1 day.                                         *)
(***************************************************************************)
\* What a day between two Sabbaths may be: an ordinary day, the eve of a
\* festival, an intermediate festival day, the last day of a festival.
FestivalKinds == {NoEventDay, DayKinds[4], DayKinds[5], SimchatTora}

\* Candles on every Friday and Havdalah on every Saturday; two neighbouring days
\* are festival days where they are not a Friday or a Saturday.
WeeklyCalendars ==
    { [d \in Days |->
          IF d = a /\ Weekday(d) \notin {FridayWeekday, 5} THEN k1
          ELSE IF d = a + 1 /\ Weekday(d) \notin {FridayWeekday, 5} THEN k2
          ELSE WeeklyCalendar[d]] : a \in Days, k1 \in FestivalKinds, k2 \in FestivalKinds }

\* The loop runs while current_date < one_year_ahead; the last week of the
\* window is kept for the sequence of the last call.
one_year_ahead == LastDay - 6

\* Mutation: the search goes on from the last day of the sequence.
next_search_date_same_day(seq_end) == seq_end

\* current_date = seq_end + timedelta(days=1)
next_search_date(seq_end) == seq_end + 1

InitUpcoming ==
    /\ cal \in WeeklyCalendars
    /\ call = NoCall
    /\ ret = NoRet
    /\ CacheIdle
    /\ HebcalIdle
    /\ race = NoRace
    /\ TimesIdle
    /\ PosterIdle
    /\ sat_call = NoSaturday
    /\ mapping = NoMapping
    /\ helper_call = NoHelperCall
    /\ candles = NoCandles
    /\ \E start_base \in StartDays :
          upcoming = [started |-> TRUE, start_base |-> start_base,
                      current_date |-> start_base, events |-> <<>>]

\* One turn of the loop.
EnumerateNext ==
    /\ upcoming.started
    /\ upcoming.current_date < one_year_ahead
    /\ Len(upcoming.events) < MaxEvents
    /\ \E hour \in Hours :
          LET seq == find_next_sequence(upcoming.current_date, hour)
          IN  upcoming' = [upcoming EXCEPT
                  !.events = Append(@, [current_date |-> upcoming.current_date,
                                        seq_start |-> seq.start_date,
                                        seq_end |-> seq.end_date]),
                  !.current_date = next_search_date(seq.end_date)]
    /\ UNCHANGED <<cal, seqVars, cacheVars, hebcalVars, race, timesVars, posterVars,
                   sat_call, mapping, helper_call, candles>>

NextUpcoming == EnumerateNext

SpecUpcoming == InitUpcoming /\ [][NextUpcoming]_vars

(***************************************************************************)
(* Properties of the enumeration of sequences.                             *)
(***************************************************************************)
\* The enumeration begins inside a sequence: its first date has a qualifying
\* action and the day before carries Candles.
StartsInsideSequence ==
    /\ HasQualifyingAction(JewCal(upcoming.start_base))
    /\ HasQualifyingAction(JewCal(upcoming.start_base - 1))
    /\ JewCal(upcoming.start_base - 1).action = "Candles"

\* C19 as stated: on a calendar with weekly Sabbath recurrence every sequence the
\* enumeration returns has start_date >= current and start_date <= end_date, and
\* successive sequences are strictly increasing and never overlap.
C19_EverySequenceStartsAtCurrentOrLater ==
    \A i \in DOMAIN upcoming.events :
        LET e == upcoming.events[i]
        IN  /\ e.seq_start >= e.current_date
            /\ e.seq_start <= e.seq_end
            /\ i > 1 => upcoming.events[i - 1].seq_end < e.seq_start

\* C19, amended: every sequence has start_date <= end_date and end_date >= current;
\* every sequence after the first has start_date >= current, and so has the first
\* unless the enumeration begins inside a sequence, when the first sequence
\* starts before current; successive sequences are strictly increasing and never
\* overlap.
C19_SequencesAdvance ==
    \A i \in DOMAIN upcoming.events :
        LET e == upcoming.events[i]
        IN  /\ e.seq_start <= e.seq_end
            /\ e.seq_end >= e.current_date
            /\ i > 1 => /\ e.seq_start >= e.current_date
                        /\ upcoming.events[i - 1].seq_end < e.seq_start
            /\ i = 1 => (e.seq_start < e.current_date <=> StartsInsideSequence)

\* The enumeration began on a Saturday, got the sequence that started the day
\* before, and went on to the sequences of the following weeks.
C19_Witness ==
    /\ Len(upcoming.events) = MaxEvents
    /\ upcoming.events[1].seq_start < upcoming.events[1].current_date
    /\ upcoming.events[2].seq_start >= upcoming.events[2].current_date

(***************************************************************************)
(* cities.map_city_payload                                                 *)
(*                                                                         *)
(* The city objects live in a heap and are known by reference, so that a   *)
(* copy of a lookup entry and the entry itself are two objects.            *)
(***************************************************************************)
\* The objects of the lookup table, by reference.
LookupHeap ==
    << [name |-> "he:Jerusalem", lat |-> "31.778", lon |-> "35.236", candle_offset |-> 40],
       [name |-> "he:Haifa", lat |-> "32.802", lon |-> "35.001", candle_offset |-> 30] >>

\* city_lookup: city name -> reference of the city object
city_lookup == [n \in {LookupHeap[r].name : r \in DOMAIN LookupHeap} |->
                   CHOOSE r \in DOMAIN LookupHeap : LookupHeap[r].name = n]

\* The names a request may carry: two of the lookup, an unknown one, the empty one.
ItemNames == {"he:Jerusalem", "he:Haifa", "he:Nowhere", ""}

\* The items of payload["cities"]: strings, dicts with or without "name" and
\* "candle_offset", and values that are neither.
CityItems ==
    { [type |-> "str", has_name |-> TRUE, name |-> n, has_offset |-> FALSE,
       candle_offset |-> 0] : n \in ItemNames }
    \cup
    { [type |-> "dict", has_name |-> TRUE, name |-> n, has_offset |-> TRUE,
       candle_offset |-> o] : n \in ItemNames, o \in {18, 40} }
    \cup
    { [type |-> "dict", has_name |-> TRUE, name |-> n, has_offset |-> FALSE,
       candle_offset |-> 0] : n \in ItemNames }
    \cup
    { [type |-> "dict", has_name |-> FALSE, name |-> "", has_offset |-> h,
       candle_offset |-> IF h THEN 18 ELSE 0] : h \in BOOLEAN }
    \cup
    { [type |-> "other", has_name |-> FALSE, name |-> "", has_offset |-> FALSE,
       candle_offset |-> 0] }

\* The payloads of a request: "cities" absent, a list of items, or a value
\* that is no list; "customCities" present and non-empty, or not.
MappingPayloads ==
    { [cities_kind |-> k, cities |-> <<>>, customCities |-> c] :
          k \in {"absent", "other"}, c \in BOOLEAN }
    \cup
    UNION { { [cities_kind |-> "list", cities |-> items, customCities |-> c] :
                  items \in [1 .. n -> CityItems], c \in BOOLEAN } : n \in 0 .. MaxCities }

\* Mutation: the lookup's own object is handed out.
copy_same_object(heap, ref) == [heap |-> heap, ref |-> ref]

\* city_lookup[name].copy(): a new object with the fields of the old one
copy(heap, ref) == [heap |-> Append(heap, heap[ref]), ref |-> Len(heap) + 1]

\* The loop over city_items; mapped_cities holds references.
RECURSIVE MapItems(_, _, _, _)
MapItems(city_items, i, heap, mapped_cities) ==
    IF i > Len(city_items)
    THEN [heap |-> heap, mapped_cities |-> mapped_cities]
    ELSE LET item == city_items[i]
         IN  IF item.type \notin {"str", "dict"}
             THEN MapItems(city_items, i + 1, heap, mapped_cities)
             ELSE LET name == IF item.type = "str" THEN item.name
                              ELSE IF item.has_name THEN item.name ELSE ""
                      candle_offset == IF item.type = "str" THEN 20
                                       ELSE IF item.has_offset THEN item.candle_offset
                                       ELSE 20
                  IN  IF name \in DOMAIN city_lookup
                      THEN LET city == copy(heap, city_lookup[name])
                           IN  MapItems(city_items, i + 1,
                                   [city.heap EXCEPT ![city.ref].candle_offset = candle_offset],
                                   Append(mapped_cities, city.ref))
                      ELSE MapItems(city_items, i + 1, heap, mapped_cities)

\* Mutation: without a mapped city the list is emptied whether or not the
\* payload has custom cities.
map_city_payload_always_empties(payload, heap) ==
    IF payload.cities_kind = "list"
    THEN LET done == MapItems(payload.cities, 1, heap, <<>>)
         IN  [payload |-> [payload EXCEPT !.cities = done.mapped_cities], heap |-> done.heap]
    ELSE [payload |-> payload, heap |-> heap]

\* The inline mapping of service.create_poster (CITY_BY_NAME is the lookup):
\* the payload and the heap afterwards.
create_poster_mapping(payload, heap) ==
    IF payload.cities_kind = "list"
    THEN LET done == MapItems(payload.cities, 1, heap, <<>>)
         IN  IF done.mapped_cities # <<>>
             THEN [payload |-> [payload EXCEPT !.cities = done.mapped_cities],
                   heap |-> done.heap]
             ELSE [payload |-> [payload EXCEPT !.cities_kind = "absent", !.cities = <<>>],
                   heap |-> done.heap]
    ELSE [payload |-> payload, heap |-> heap]

\* map_city_payload(payload, city_lookup): the payload and the heap afterwards.
map_city_payload(payload, heap) ==
    IF payload.cities_kind = "list"
    THEN LET done == MapItems(payload.cities, 1, heap, <<>>)
         IN  IF done.mapped_cities # <<>>
             THEN [payload |-> [payload EXCEPT !.cities = done.mapped_cities],
                   heap |-> done.heap]
             ELSE IF payload.customCities
                  THEN [payload |-> [payload EXCEPT !.cities = <<>>], heap |-> done.heap]
                  ELSE [payload |-> [payload EXCEPT !.cities_kind = "absent",
                                                    !.cities = <<>>],
                        heap |-> done.heap]
    ELSE [payload |-> payload, heap |-> heap]

InitMapping ==
    /\ cal = WeeklyCalendar
    /\ call = NoCall
    /\ ret = NoRet
    /\ CacheIdle
    /\ HebcalIdle
    /\ race = NoRace
    /\ TimesIdle
    /\ PosterIdle
    /\ sat_call = NoSaturday
    /\ upcoming = NoUpcoming
    /\ helper_call = NoHelperCall
    /\ candles = NoCandles
    /\ \E payload \in MappingPayloads :
          mapping = [called |-> FALSE, before |-> payload, after |-> payload,
                     heap |-> LookupHeap, service_called |-> FALSE,
                     service_after |-> payload, service_heap |-> LookupHeap]

MapCityPayload ==
    /\ ~mapping.called
    /\ LET done == map_city_payload(mapping.before, mapping.heap)
       IN  mapping' = [mapping EXCEPT !.called = TRUE, !.after = done.payload,
                                      !.heap = done.heap]
    /\ UNCHANGED <<cal, seqVars, cacheVars, hebcalVars, race, timesVars, posterVars,
                   sat_call, upcoming, helper_call, candles>>

NextMapping == MapCityPayload

SpecMapping == InitMapping /\ [][NextMapping]_vars

\* service.create_poster maps the cities of the same payload.
CreatePosterMapping ==
    /\ ~mapping.service_called
    /\ LET done == create_poster_mapping(mapping.before, mapping.service_heap)
       IN  mapping' = [mapping EXCEPT !.service_called = TRUE,
                                      !.service_after = done.payload,
                                      !.service_heap = done.heap]
    /\ UNCHANGED <<cal, seqVars, cacheVars, hebcalVars, race, timesVars, posterVars,
                   sat_call, upcoming, helper_call, candles>>

NextMappings == MapCityPayload \/ CreatePosterMapping

\* Both mappings, each applied to its own copy of one payload.
SpecMappings == InitMapping /\ [][NextMappings]_vars

(***************************************************************************)
(* Properties of map_city_payload.                                         *)
(***************************************************************************)
\* The name an item of the request carries, if it is a string or a dict.
NamesKnownCity(item) ==
    /\ item.type \in {"str", "dict"}
    /\ item.has_name
    /\ item.name \in {LookupHeap[r].name : r \in DOMAIN LookupHeap}

\* The lookup entry of an item's name with the item's candle_offset, or 20.
ExpectedEntry(item) ==
    LET entry == CHOOSE e \in {LookupHeap[r] : r \in DOMAIN LookupHeap} : e.name = item.name
    IN  [entry EXCEPT !.candle_offset =
            IF item.type = "dict" /\ item.has_offset THEN item.candle_offset ELSE 20]

ExpectedCities ==
    LET known == SelectSeq(mapping.before.cities, NamesKnownCity)
    IN  [k \in DOMAIN known |-> ExpectedEntry(known[k])]

\* C20: when the "cities" list has at least one name of the lookup, after
\* map_city_payload payload["cities"] holds, in input order, one entry for each
\* item whose name is in the lookup and none for the other items; each entry is
\* a copy of the lookup entry with candle_offset set to the item's own, or to 20
\* for strings and for dicts without one; the lookup table is as it was.
C20_KnownCitiesMappedInOrder ==
    (/\ mapping.called
     /\ mapping.before.cities_kind = "list"
     /\ \E k \in DOMAIN mapping.before.cities : NamesKnownCity(mapping.before.cities[k]))
    => /\ mapping.after.cities_kind = "list"
       /\ [k \in DOMAIN mapping.after.cities |-> mapping.heap[mapping.after.cities[k]]]
             = ExpectedCities
       /\ \A r \in DOMAIN LookupHeap : mapping.heap[r] = LookupHeap[r]
       /\ \A k \in DOMAIN mapping.after.cities :
             mapping.after.cities[k] \notin DOMAIN LookupHeap

\* A string, a dict with its own candle_offset and an item that is skipped were
\* mapped: two entries, the first with offset 20, the second with the dict's.
C20_Witness ==
    /\ mapping.called
    /\ Len(mapping.before.cities) > Len(mapping.after.cities)
    /\ Len(mapping.after.cities) >= 1
    /\ \E k \in DOMAIN mapping.after.cities :
          /\ mapping.heap[mapping.after.cities[k]].candle_offset = 18
          /\ mapping.heap[mapping.after.cities[k]].name = "he:Jerusalem"

\* C21: when payload["cities"] is a list none of whose items names a city of the
\* lookup (the empty list included), map_city_payload sets it to [] if the
\* payload has a non-empty customCities and removes the key otherwise; a payload
\* without "cities", or whose "cities" is no list, is left as it was.
C21_NoKnownCityFallsBack ==
    mapping.called =>
        /\ (/\ mapping.before.cities_kind = "list"
            /\ \A k \in DOMAIN mapping.before.cities :
                   ~NamesKnownCity(mapping.before.cities[k]))
           => IF mapping.before.customCities
              THEN mapping.after = [mapping.before EXCEPT !.cities = <<>>]
              ELSE /\ mapping.after.cities_kind = "absent"
                   /\ mapping.after.customCities = mapping.before.customCities
        /\ mapping.before.cities_kind # "list" => mapping.after = mapping.before

\* A list of two items that name no city of the lookup, in a payload with
\* custom cities, became the empty list.
C21_Witness ==
    /\ mapping.called
    /\ mapping.before.cities_kind = "list"
    /\ Len(mapping.before.cities) = 2
    /\ mapping.before.customCities
    /\ mapping.after.cities_kind = "list"
    /\ mapping.after.cities = <<>>

\* The cities of a payload after a mapping, by value.
CitiesByValue(payload, heap) == [k \in DOMAIN payload.cities |-> heap[payload.cities[k]]]

\* C22: the inline city mapping of service.create_poster leaves every payload,
\* with or without customCities and with or without valid predefined cities, in
\* the state in which cities.map_city_payload leaves it.
C22_ServiceMappingAgrees ==
    (mapping.called /\ mapping.service_called) =>
        /\ mapping.service_after.cities_kind = mapping.after.cities_kind
        /\ mapping.service_after.customCities = mapping.after.customCities
        /\ CitiesByValue(mapping.service_after, mapping.service_heap)
              = CitiesByValue(mapping.after, mapping.heap)

(***************************************************************************)
(* translate_parsha, applied on its own.                                   *)
(***************************************************************************)
\* The spellings translate_parsha is given: the table's keys in several cases
\* and punctuations, and names the table does not know.
ParshaSpellings ==
    { "Vayigash", "vayigash", "VAYIGASH", "V'ayigash", "Vayigash ", "Vayechi",
      "vayechi", "VAYECHI", "V'ayechi", "Vayechi ", "Shemot", "shemot", "SHEMOT",
      "S'hemot", "Shemot ", "Bo", "bo", "BO", "B'o", "Bo ", "Lech-Lecha",
      "lech-lecha", "LECH-LECHA", "Lech Lecha", "LechLecha", "lechlecha",
      "L'ech-Lecha", "Lech-Lecha ", "lech lecha", "LECH LECHA", "L'ech Lecha",
      "Lech Lecha ", "Ki Tisa", "ki tisa", "KI TISA", "Ki-Tisa", "KiTisa", "kitisa",
      "K'i Tisa", "Ki Tisa ", "Beha'alotcha", "beha'alotcha", "BEHA'ALOTCHA",
      "Beha~alotcha", "Behaalotcha", "behaalotcha", "beha~alotcha", "B'eha'alotcha",
      "Beha'alotcha ", "Re'eh", "re'eh", "RE'EH", "Re~eh", "Reeh", "reeh", "re~eh",
      "R'e'eh", "Re'eh ", "Ha'Azinu", "ha'azinu", "HA'AZINU", "Ha~Azinu", "HaAzinu",
      "haazinu", "ha~azinu", "H'a'Azinu", "Ha'Azinu ", "Haazinu", "HAAZINU",
      "H'aazinu", "Haazinu ", "Ha'azinu", "Ha~azinu", "H'a'azinu", "Ha'azinu ",
      "Matot-Masei", "matot-masei", "MATOT-MASEI", "Matot Masei", "MatotMasei",
      "matotmasei", "M'atot-Masei", "Matot-Masei ", "Matot-Mas'ei", "matot-mas'ei",
      "MATOT-MAS'EI", "Matot-Mas~ei", "Matot Mas'ei", "MatotMas'ei", "matot-mas~ei",
      "M'atot-Mas'ei", "Matot-Mas'ei ", "Mas'ei", "mas'ei", "MAS'EI", "Mas~ei",
      "Masei", "masei", "mas~ei", "M'as'ei", "Mas'ei ", "Vezot Haberakhah",
      "vezot haberakhah", "VEZOT HABERAKHAH", "Vezot-Haberakhah", "VezotHaberakhah",
      "vezothaberakhah", "V'ezot Haberakhah", "Vezot Haberakhah ",
      "V'Zot HaBerachah", "v'zot haberachah", "V'ZOT HABERACHAH", "V~Zot HaBerachah",
      "VZot HaBerachah", "V'Zot-HaBerachah", "V'ZotHaBerachah", "vzothaberachah",
      "v~zot haberachah", "V''Zot HaBerachah", "V'Zot HaBerachah ", "UnknownParsha",
      "Unknown~s", "Asara B'Tevet", "Mas~ei Extra", "Lech_Lecha", "Rosh Chodesh",
      "O~Brien-Smith", "" }

InitTranslate ==
    /\ cal = WeeklyCalendar
    /\ call = NoCall
    /\ ret = NoRet
    /\ CacheIdle
    /\ HebcalIdle
    /\ OtherIdle

\* translate_parsha(english_name) for a spelling of the caller's choice.
TranslateParsha ==
    /\ \E english_name \in ParshaSpellings :
          helper_call' = [op |-> "translate_parsha", arg |-> english_name,
                          result |-> translate_parsha(english_name)]
    /\ UNCHANGED <<cal, seqVars, cacheVars, hebcalVars, race, timesVars, posterVars,
                   sat_call, upcoming, mapping, candles>>

NextTranslate == TranslateParsha

SpecTranslate == InitTranslate /\ [][NextTranslate]_vars

(***************************************************************************)
(* Properties of translate_parsha.                                         *)
(***************************************************************************)
\* A spelling after case-folding and removal of apostrophes (plain and
\* typographic), hyphens and spaces.
FoldedSpelling(name) == normalize_parsha_key(normalize_apostrophes(name))

\* The table keys that a spelling equals after folding.
MatchingKeys(name) ==
    {k \in DOMAIN PARASHA_TRANSLATION : FoldedSpelling(k) = FoldedSpelling(name)}

Translated == helper_call.op = "translate_parsha"

\* C23: translate_parsha returns the prefix and the Hebrew name for every
\* spelling that equals a table key after case-folding and removal of
\* apostrophes, hyphens and spaces, so that spellings with one normalized key
\* translate alike; when no key matches it returns the prefix and the input
\* name unchanged.
C23_TranslatesByNormalizedKey ==
    Translated =>
        IF MatchingKeys(helper_call.arg) # {}
        THEN \A k \in MatchingKeys(helper_call.arg) :
                 helper_call.result = Str(HebrewPrefix, PARASHA_TRANSLATION[k])
        ELSE helper_call.result = Str(HebrewPrefix, helper_call.arg)

(***************************************************************************)
(* Candle-lighting time and candle_offset, for one date and one place.     *)
(*                                                                         *)
(* Times are minutes of the day. The zmanim are the jewcal library's: its  *)
(* candle-lighting time is the given number of minutes before sunset.      *)
(***************************************************************************)
\* The sunset of the date at the place; -1 where the library has no zmanim.
Sunsets == {-1, 990, 1000, 1170}

\* The offsets a caller asks for.
CandleOffsets == {0, 18, 20, 40, 60}

\* Mutation: the offset is counted from an hour before sunset backwards.
LocationLateForLongOffsets(candle_offset) ==
    [use_tzeis_hakochavim |-> TRUE, hadlokas_haneiros_minutes |-> 60 - candle_offset,
     tzeis_minutes |-> 42]

\* Location(latitude=lat, longitude=lon, use_tzeis_hakochavim=True,
\*          hadlokas_haneiros_minutes=candle_offset, tzeis_minutes=42)
Location(candle_offset) ==
    [use_tzeis_hakochavim |-> TRUE, hadlokas_haneiros_minutes |-> candle_offset,
     tzeis_minutes |-> 42]

\* JewCal(gregorian_date, diaspora, location).zmanim of the library: candle
\* lighting is location.hadlokas_haneiros_minutes before sunset.
LocatedZmanim(sunset, location) ==
    IF sunset < 0 THEN [present |-> FALSE, hadlokas_haneiros |-> -1]
    ELSE [present |-> TRUE,
          hadlokas_haneiros |-> sunset - location.hadlokas_haneiros_minutes]

\* _get_jewcal_with_location_cached for the date and the place; the key that
\* varies is candle_offset.
get_jewcal_with_location_cached(cache, sunset, candle_offset) ==
    IF candle_offset \in DOMAIN cache
    THEN [cache |-> cache, jewcal |-> cache[candle_offset]]
    ELSE LET jewcal == LocatedZmanim(sunset, Location(candle_offset))
         IN  [cache |-> [o \in DOMAIN cache \cup {candle_offset} |->
                            IF o = candle_offset THEN jewcal ELSE cache[o]],
              jewcal |-> jewcal]

\* candle_time of jewcal_times_for_sequence; -1 is None.
candle_time_of(jewcal) ==
    IF jewcal.present THEN jewcal.hadlokas_haneiros ELSE -1

InitCandles ==
    /\ cal = WeeklyCalendar
    /\ call = NoCall
    /\ ret = NoRet
    /\ CacheIdle
    /\ HebcalIdle
    /\ race = NoRace
    /\ TimesIdle
    /\ PosterIdle
    /\ sat_call = NoSaturday
    /\ upcoming = NoUpcoming
    /\ mapping = NoMapping
    /\ helper_call = NoHelperCall
    /\ \E sunset \in Sunsets :
          candles = [sunset |-> sunset, location_cache |-> <<>>, candle |-> <<>>]

\* jewcal_times_for_sequence for the date and the place with one more offset:
\* the candle time it returns is kept under the offset.
CandleTimeFor ==
    /\ \E candle_offset \in CandleOffsets :
          LET got == get_jewcal_with_location_cached(candles.location_cache,
                                                     candles.sunset, candle_offset)
          IN  candles' = [candles EXCEPT
                  !.location_cache = got.cache,
                  !.candle = [o \in DOMAIN candles.candle \cup {candle_offset} |->
                                 IF o = candle_offset THEN candle_time_of(got.jewcal)
                                 ELSE candles.candle[o]]]
    /\ UNCHANGED <<cal, seqVars, cacheVars, hebcalVars, race, timesVars, posterVars,
                   sat_call, upcoming, mapping, helper_call>>

\* clear_jewcal_cache()
ClearLocationCache ==
    /\ candles.location_cache # <<>>
    /\ candles' = [candles EXCEPT !.location_cache = <<>>]
    /\ UNCHANGED <<cal, seqVars, cacheVars, hebcalVars, race, timesVars, posterVars,
                   sat_call, upcoming, mapping, helper_call>>

NextCandles == CandleTimeFor \/ ClearLocationCache

SpecCandles == InitCandles /\ [][NextCandles]_vars

(***************************************************************************)
(* Properties of the candle-lighting time.                                 *)
(***************************************************************************)
\* C24: for a fixed date and place, a larger candle_offset never gives a later
\* candle-lighting time: for offsets a <= b the candle time computed with b is
\* not later than the one computed with a.
C24_LargerOffsetNotLater ==
    \A a \in DOMAIN candles.candle, b \in DOMAIN candles.candle :
        (a <= b /\ candles.candle[a] # -1 /\ candles.candle[b] # -1)
            => candles.candle[b] <= candles.candle[a]

\* Candle times were computed with three offsets, one of them answered from the
\* cache after the others, and the largest offset has the earliest time.
C24_Witness ==
    /\ {18, 20, 40} \subseteq DOMAIN candles.candle
    /\ candles.candle[40] < candles.candle[20]
    /\ candles.candle[20] < candles.candle[18]
    /\ DOMAIN candles.location_cache # {}

(***************************************************************************)
(* Further properties of find_event_sequence.                              *)
(***************************************************************************)
\* The rule that ends a sequence at date d: d carries Havdalah, or the day after
\* d has no qualifying action.
EndsAt(d) == JewCal(d).action = "Havdalah" \/ ~HasQualifyingAction(JewCal(d + 1))

\* C25: the sequence find_event_sequence returns for a trigger with a qualifying
\* action is maximal: the day before start_date has no qualifying action or
\* carries Havdalah, and end_date is the first date on or after the trigger that
\* carries Havdalah or whose next day has no qualifying action.
C25_SequenceIsMaximal ==
    (call.op = "find_event_sequence" /\ HasQualifyingAction(JewCal(call.trigger))) =>
        /\ \/ ~HasQualifyingAction(JewCal(ret.start_date - 1))
           \/ JewCal(ret.start_date - 1).action = "Havdalah"
        /\ ret.end_date >= call.trigger
        /\ EndsAt(ret.end_date)
        /\ \A d \in call.trigger .. (ret.end_date - 1) : ~EndsAt(d)

\* A sequence of three days found from its last day: the walk went back past
\* two days with Candles and stopped before a day without a qualifying action.
C25_Witness ==
    /\ call.op = "find_event_sequence"
    /\ HasQualifyingAction(JewCal(call.trigger))
    /\ ret.start_date = call.trigger - 2
    /\ JewCal(call.trigger).action = "Havdalah"
    /\ ~HasQualifyingAction(JewCal(ret.start_date - 1))

(***************************************************************************)
(* find_event_sequence on calendars with a festival day that falls on      *)
(* Shabbat, which carries a Yom Tov name and a Shabbos name.               *)
(***************************************************************************)
YomTovOnShabbos == JewCalDay(TRUE, "Havdalah", "Pesach 1", "Shabbos")
YomTovOnErevShabbos == JewCalDay(TRUE, "Candles", "Pesach 7", "Erev Shabbos")

EventKinds == << NoEventDay, DayKinds[2], DayKinds[3], DayKinds[4], DayKinds[5],
                 YomTovOnShabbos, YomTovOnErevShabbos >>

\* The calendars whose days offset+1 .. offset+MaxBlock have kinds of EventKinds,
\* around the first start dates.
EventBlockCalendar(offset, kinds) ==
    [d \in Days |->
        IF d - offset \in DOMAIN kinds THEN EventKinds[kinds[d - offset]] ELSE NoEventDay]

EventCalendars ==
    { EventBlockCalendar(o, ks) : o \in (FirstStart - 2) .. FirstStart,
                                  ks \in [1 .. MaxBlock -> DOMAIN EventKinds] }

InitEvents ==
    /\ cal \in EventCalendars
    /\ call = NoCall
    /\ ret = NoRet
    /\ CacheIdle
    /\ HebcalIdle
    /\ OtherIdle

NextEvents == FindEventSequence

SpecEvents == InitEvents /\ [][NextEvents]_vars

\* C26: the event_type and event_name find_event_sequence returns are those of
\* end_date alone: "yomtov" with the Yom Tov name of the end date when it
\* carries one, also when it carries a Shabbos name too, otherwise "shabbos"
\* with its Shabbos name; a date without events, which is then the whole
\* sequence, gives no type and no name. No earlier day of the sequence has a
\* part in the result.
C26_EventOfEndDateAlone ==
    call.op = "find_event_sequence" =>
        LET end_jewcal == JewCal(ret.end_date)
        IN  IF ~end_jewcal.has_events
            THEN ret.event_type = None /\ ret.event_name = None
            ELSE IF end_jewcal.yomtov # None
            THEN ret.event_type = "yomtov" /\ ret.event_name = end_jewcal.yomtov
            ELSE ret.event_type = "shabbos" /\ ret.event_name = end_jewcal.shabbos

\* A sequence of three days found from its middle day: the backward walk
\* reached a festival day, the trigger carries a Shabbos name only, and the end
\* date carries a Yom Tov name and a Shabbos name.
C26_Witness ==
    /\ call.op = "find_event_sequence"
    /\ ret.start_date < call.trigger
    /\ call.trigger < ret.end_date
    /\ JewCal(ret.start_date).yomtov = "Pesach 1"
    /\ JewCal(call.trigger).yomtov = None
    /\ JewCal(ret.end_date).yomtov # None
    /\ JewCal(ret.end_date).shabbos # None
    /\ ret.event_type = "yomtov"

(***************************************************************************)
(* is_end_of_holiday_sequence, which jewcal_times_for_date asks before it  *)
(* reports a havdalah time for a Yom Tov day.                              *)
(***************************************************************************)
\* next_jewcal = _get_jewcal_cached(target_date + 1 day, False); False when it
\* has events with action Candles or Havdalah, True otherwise.
is_end_of_holiday_sequence(target_date) ==
    LET next_day == target_date + 1
        next_jewcal == JewCal(next_day)
    IN  IF next_jewcal.has_events /\ next_jewcal.action \in {"Candles", "Havdalah"}
        THEN FALSE
        ELSE TRUE

InitEndOfSequence ==
    /\ cal \in EventCalendars
    /\ call = NoCall
    /\ ret = NoRet
    /\ CacheIdle
    /\ HebcalIdle
    /\ OtherIdle

IsEndOfHolidaySequence ==
    \E target_date \in StartDays :
        /\ helper_call' = [op |-> "is_end_of_holiday_sequence", arg |-> target_date,
                           result |-> is_end_of_holiday_sequence(target_date)]
        /\ UNCHANGED <<cal, seqVars, cacheVars, hebcalVars, race, zmanim, times, poster,
                       sat_call, upcoming, mapping, candles>>

NextEndOfSequence == IsEndOfHolidaySequence

SpecEndOfSequence == InitEndOfSequence /\ [][NextEndOfSequence]_vars

\* C27: for every date d with a qualifying action, is_end_of_holiday_sequence(d)
\* is True exactly when find_event_sequence(d) returns end_date = d.
C27_EndExactlyWhenSequenceEnds ==
    (helper_call.op = "is_end_of_holiday_sequence"
        /\ HasQualifyingAction(JewCal(helper_call.arg))) =>
        (helper_call.result <=> find_event_sequence(helper_call.arg).end_date = helper_call.arg)

(***************************************************************************)
(* The loop of get_upcoming_events followed to its end, on calendars with  *)
(* festival days and with stretches of days without any event, where       *)
(* find_next_sequence falls back to the next Friday.                       *)
(***************************************************************************)
\* The eventful days begin the day after the first start date: the loop begins
\* before them, among them or after them.
EnumerateCalendars ==
    { EventBlockCalendar(FirstStart, ks) : ks \in [1 .. MaxBlock -> DOMAIN EventKinds] }

InitEnumerate ==
    /\ cal \in EnumerateCalendars
    /\ call = NoCall
    /\ ret = NoRet
    /\ CacheIdle
    /\ HebcalIdle
    /\ race = NoRace
    /\ TimesIdle
    /\ PosterIdle
    /\ sat_call = NoSaturday
    /\ mapping = NoMapping
    /\ helper_call = NoHelperCall
    /\ candles = NoCandles
    /\ \E start_base \in StartDays :
          upcoming = [started |-> TRUE, start_base |-> start_base,
                      current_date |-> start_base, events |-> <<>>]

\* One turn of the loop: while current_date < one_year_ahead.
EnumerateTurn ==
    /\ upcoming.started
    /\ upcoming.current_date < one_year_ahead
    /\ \E hour \in Hours :
          LET seq == find_next_sequence(upcoming.current_date, hour)
          IN  upcoming' = [upcoming EXCEPT
                  !.events = Append(@, [current_date |-> upcoming.current_date,
                                        seq_start |-> seq.start_date,
                                        seq_end |-> seq.end_date]),
                  !.current_date = next_search_date(seq.end_date)]
    /\ UNCHANGED <<cal, seqVars, cacheVars, hebcalVars, race, timesVars, posterVars,
                   sat_call, mapping, helper_call, candles>>

NextEnumerate == EnumerateTurn

\* The loop is sequential code: a turn that can be taken is taken.
SpecEnumerate == InitEnumerate /\ [][NextEnumerate]_vars /\ WF_vars(NextEnumerate)

\* The loop has ended: its condition current_date < one_year_ahead is false.
LoopEnded == upcoming.started /\ upcoming.current_date >= one_year_ahead

InitSequenceTimes ==
    /\ cal \in EventCalendars \cup TimesCalendars
    /\ call = NoCall
    /\ ret = NoRet
    /\ CacheIdle
    /\ HebcalIdle
    /\ race = NoRace
    /\ zmanim = FullZmanim
    /\ times = NoTimes
    /\ PosterIdle
    /\ HelpersIdle

\* seq_start, seq_end, event_type, _ = find_next_sequence(current_search_date),
\* then jewcal_times_for_sequence(lat, lon, seq_start, seq_end, candle_offset).
SequenceThenTimes ==
    \E start_base \in StartDays :
        LET found == ScanForTrigger(start_base, 0)
            uses_clock == found = {} /\ ReadsClock(start_base)
        IN  \E hour \in IF uses_clock THEN Hours ELSE {NoonHour} :
                /\ call' = [op |-> "find_next_sequence", arg |-> start_base,
                            clock_read |-> uses_clock, hour |-> hour,
                            trigger |-> TriggerDate(start_base, hour),
                            fallback |-> (found = {})]
                /\ ret' = find_next_sequence(start_base, hour)
                /\ times' = jewcal_times_for_sequence(ret'.start_date, ret'.end_date)
                /\ UNCHANGED <<cal, cacheVars, hebcalVars, race, zmanim, posterVars,
                               helperVars>>

NextSequenceTimes == SequenceThenTimes

SpecSequenceTimes == InitSequenceTimes /\ [][NextSequenceTimes]_vars

\* C29: for every sequence find_next_sequence returns, the event_type that
\* jewcal_times_for_sequence reports for the same start_date and end_date is the
\* event_type find_next_sequence returned.
C29_SameEventType ==
    (call.op = "find_next_sequence" /\ TimesCalled) => times.event_type = ret.event_type

(***************************************************************************)
(* find_next_sequence of calendar_utils, which reads every day through     *)
(* _get_jewcal_cached, beside find_next_sequence of make_shabbat_posts,    *)
(* which constructs a JewCal for every day it reads.                       *)
(***************************************************************************)
\* One statement after another: the value of the first is computed once, then
\* the rest runs on it.
Then(value, Rest(_)) == CHOOSE r \in {Rest(v) : v \in {value}} : TRUE

\* The cache and the number of JewCal constructions for each key since the
\* cache was last cleared.
CallsOf(calls, key) == IF key \in DOMAIN calls THEN calls[key] ELSE 0

Looked(got, st, key) ==
    [result |-> got.result, cache |-> got.cache,
     calls |-> IF got.hit THEN st.calls
               ELSE (key :> (CallsOf(st.calls, key) + 1)) @@ st.calls]

\* _get_jewcal_cached(gregorian_date, diaspora) on the cache st.cache
get_jewcal_cached(st, gregorian_date, diaspora) ==
    Then([gregorian_date |-> gregorian_date, diaspora |-> diaspora],
         LAMBDA key : Then(lru_cache_get(st.cache, key),
                           LAMBDA got : Looked(got, st, key)))

\* for i in range(14): temp_jewcal = _get_jewcal_cached(check_date, False)
RECURSIVE ScanForTriggerCached(_, _, _)
ScanForTriggerCached(st, start_base, i) ==
    IF i >= SearchDays
    THEN [found |-> {}, cache |-> st.cache, calls |-> st.calls]
    ELSE Then(get_jewcal_cached(st, start_base + i, FALSE),
              LAMBDA temp_jewcal :
                  IF HasQualifyingAction(temp_jewcal.result)
                  THEN [found |-> {start_base + i}, cache |-> temp_jewcal.cache,
                        calls |-> temp_jewcal.calls]
                  ELSE ScanForTriggerCached(temp_jewcal, start_base, i + 1))

\* The first loop of find_event_sequence: prev_jewcal = _get_jewcal_cached(prev_day, False)
RECURSIVE BackwardWalkCached(_, _)
BackwardWalkCached(st, current_date) ==
    Then(get_jewcal_cached(st, current_date - 1, FALSE),
         LAMBDA prev_jewcal :
             IF HasQualifyingAction(prev_jewcal.result)
                    /\ prev_jewcal.result.action # "Havdalah"
             THEN BackwardWalkCached(prev_jewcal, current_date - 1)
             ELSE [start |-> current_date, cache |-> prev_jewcal.cache,
                   calls |-> prev_jewcal.calls])

\* The event the second loop has recorded after a day with events.
Recorded(jewcal, main_event_type, main_event_name) ==
    IF jewcal.yomtov # None THEN [type |-> "yomtov", name |-> jewcal.yomtov]
    ELSE IF jewcal.shabbos # None THEN [type |-> "shabbos", name |-> jewcal.shabbos]
    ELSE [type |-> main_event_type, name |-> main_event_name]

WalkEnded(end, event, st) ==
    [end |-> end, type |-> event.type, name |-> event.name,
     cache |-> st.cache, calls |-> st.calls]

\* The second loop: jewcal = _get_jewcal_cached(current_date, False), and
\* next_jewcal = _get_jewcal_cached(next_day, False) when the day has events.
RECURSIVE ForwardWalkCached(_, _, _, _)
ForwardWalkCached(st, current_date, sequence_end, main_event) ==
    Then(get_jewcal_cached(st, current_date, FALSE),
         LAMBDA got :
             IF ~got.result.has_events
             THEN WalkEnded(sequence_end, main_event, got)
             ELSE Then(Recorded(got.result, main_event.type, main_event.name),
                  LAMBDA event :
                      Then(get_jewcal_cached(got, current_date + 1, FALSE),
                           LAMBDA next_jewcal :
                               IF HasQualifyingAction(next_jewcal.result)
                                      /\ got.result.action # "Havdalah"
                               THEN ForwardWalkCached(next_jewcal, current_date + 1,
                                                      current_date, event)
                               ELSE WalkEnded(current_date, event, next_jewcal))))

Found(back, fw) ==
    [seq |-> [start_date |-> back.start, end_date |-> fw.end,
              event_type |-> fw.type, event_name |-> fw.name],
     cache |-> fw.cache, calls |-> fw.calls]

\* calendar_utils.find_event_sequence(start_date) with the cache it leaves.
find_event_sequence_cached(st, start_date) ==
    Then(BackwardWalkCached(st, start_date),
         LAMBDA back :
             Then(ForwardWalkCached(back, start_date, start_date,
                                    [type |-> None, name |-> None]),
                  LAMBDA fw : Found(back, fw)))

Returned(found, scan, trigger, start_base) ==
    [seq |-> found.seq, cache |-> found.cache, calls |-> found.calls,
     trigger |-> trigger, fallback |-> (scan.found = {}),
     clock_read |-> (scan.found = {} /\ ReadsClock(start_base))]

\* calendar_utils.find_next_sequence(start_base) with the cache it leaves.
find_next_sequence_cached(st, start_base, hour) ==
    Then(ScanForTriggerCached(st, start_base, 0),
         LAMBDA scan :
             Then(IF scan.found # {} THEN CHOOSE t \in scan.found : TRUE
                  ELSE next_friday(start_base, hour),
                  LAMBDA trigger :
                      Then(find_event_sequence_cached(scan, trigger),
                           LAMBDA found : Returned(found, scan, trigger, start_base))))

\* make_shabbat_posts.find_next_sequence(start_base): the same two loops and
\* the same scan, with JewCal(gregorian_date=..., diaspora=False) for every day.
posts_find_next_sequence(start_base, hour) == find_next_sequence(start_base, hour)

\* A run of lookups by an earlier caller: count dates from first on, one after
\* the other (the first half of the run, then the rest).
RECURSIVE LookupRun(_, _, _, _)
LookupRun(st, first, count, diaspora) ==
    IF count = 0 THEN [cache |-> st.cache, calls |-> st.calls]
    ELSE IF count = 1 THEN get_jewcal_cached(st, first, diaspora)
    ELSE Then(LookupRun(st, first, count \div 2, diaspora),
              LAMBDA after_half :
                  LookupRun(after_half, first + (count \div 2), count - (count \div 2),
                            diaspora))

\* Dates no call in the window reads.
FarDay == LastDay + SearchDays + 1

\* Earlier use of the cache: enough other dates to fill it, and the dates of
\* the window looked up with the customs of the diaspora.
PriorRuns ==
    { [first |-> FarDay, count |-> maxsize, diaspora |-> FALSE],
      [first |-> 0, count |-> FirstStart + MaxBlock, diaspora |-> TRUE] }

WithinCalls(calls) == \A k \in DOMAIN calls : calls[k] <= MaxOracleCalls

\* The calendars of the cached calls: a festival eve, an intermediate day, the
\* eve of Shabbat and Shabbat before or among the start dates, and the weekly
\* calendar.
TransparentCalendars ==
    {CacheCalendar, BlockCalendar(FirstStart, <<4, 5, 2, 3>>), WeeklyCalendar}

\* lookup.cursor + 1 is the number of uses of the cache so far in this history.
CacheUses == lookup.cursor + 1

InitTransparent ==
    /\ cal \in TransparentCalendars
    /\ call = NoCall
    /\ ret = NoRet
    /\ jewcal_cache = <<>>
    /\ oracle_calls = << >>
    /\ first_ret = [i \in {} |-> NoEventDay]
    /\ lookup = NoLookup
    /\ HebcalIdle
    /\ OtherIdle

CacheLeft(st) ==
    /\ CacheUses < MaxCacheUses
    /\ WithinCalls(st.calls)
    /\ jewcal_cache' = st.cache
    /\ oracle_calls' = st.calls
    /\ lookup' = [lookup EXCEPT !.cursor = @ + 1]

PriorLookups ==
    \E run \in PriorRuns :
        /\ \E st \in {LookupRun([cache |-> jewcal_cache, calls |-> oracle_calls],
                                 run.first, run.count, run.diaspora)} : CacheLeft(st)
        /\ UNCHANGED <<cal, seqVars, first_ret, hebcalVars, otherVars>>

CachedCallDone(r, start_base, hour) ==
    /\ CacheLeft(r)
    /\ ret' = r.seq
    /\ call' = [op |-> "find_next_sequence", arg |-> start_base,
                clock_read |-> r.clock_read, hour |-> hour,
                trigger |-> r.trigger, fallback |-> r.fallback]

\* The clock is an input of the call only when next_friday reads it.
CachedFindNextSequence ==
    \E start_base \in StartDays, hour \in Hours :
        /\ hour = NoonHour \/ (ReadsClock(start_base) /\ hour = NoonHour - 1)
        /\ \E r \in {find_next_sequence_cached(
                           [cache |-> jewcal_cache, calls |-> oracle_calls],
                           start_base, hour)} : CachedCallDone(r, start_base, hour)
        /\ UNCHANGED <<cal, first_ret, hebcalVars, otherVars>>

\* clear_jewcal_cache()
ClearCaches ==
    /\ jewcal_cache # <<>>
    /\ CacheUses < MaxCacheUses
    /\ jewcal_cache' = <<>>
    /\ oracle_calls' = << >>
    /\ lookup' = [lookup EXCEPT !.cursor = @ + 1]
    /\ UNCHANGED <<cal, seqVars, first_ret, hebcalVars, otherVars>>

NextTransparent == PriorLookups \/ CachedFindNextSequence \/ ClearCaches

SpecTransparent == InitTransparent /\ [][NextTransparent]_vars

\* C30: whatever the cache has been through, hits, misses, evictions beyond
\* maxsize entries and clear_jewcal_cache, the cache-backed find_next_sequence of
\* calendar_utils returns the 4-tuple the uncached find_next_sequence of
\* make_shabbat_posts returns for the same start date on the same calendar.
C30_CacheIsTransparent ==
    call.op = "find_next_sequence" => ret = posts_find_next_sequence(call.arg, call.hour)

\* A call that found the cache full of other dates, which had driven out the
\* days an earlier call had read: it constructed a JewCal for one of those days
\* a second time, drove entries out, and returned a sequence of more than one day.
C30_Witness ==
    /\ call.op = "find_next_sequence"
    /\ Len(jewcal_cache) = maxsize
    /\ \E k \in DOMAIN oracle_calls : ~k.diaspora /\ k.gregorian_date < FarDay
                                          /\ oracle_calls[k] = MaxOracleCalls
    /\ ret.start_date < ret.end_date

====
